---------------------------- MODULE Spec2Model ----------------------------
(***************************************************************************)
(* Model of the sing-box generator of the geoasset repository              *)
(* (proxy-build/Asset/generate_singbox_config.py): the descriptor parsers, *)
(* the tag assigner, the outbound builder and the process_configs batch.   *)
(*                                                                         *)
(* A Python str is a sequence of one-character strings, so that base64,    *)
(* splitting, prefix tests and regular-expression search are computed on   *)
(* characters, as the code computes them.                                  *)
(***************************************************************************)
EXTENDS Integers, Sequences, FiniteSets, TLC

\* An assignment x = v followed by the code F that uses x: v is evaluated
\* once, whatever the number of uses of x.
Let(v, F(_)) == CHOOSE y \in {F(x) : x \in {v}} : TRUE

(***************************************************************************)
(* Characters.                                                             *)
(***************************************************************************)

\* The printable ASCII characters, code 32 first (code 96 is written GRAVE).
Ascii ==
    <<" ", "!", "\"", "#", "$", "%", "&", "'", "(", ")", "*", "+", ",", "-", ".", "/",
      "0", "1", "2", "3", "4", "5", "6", "7", "8", "9", ":", ";", "<", "=", ">", "?",
      "@", "A", "B", "C", "D", "E", "F", "G", "H", "I", "J", "K", "L", "M", "N", "O",
      "P", "Q", "R", "S", "T", "U", "V", "W", "X", "Y", "Z", "[", "\\", "]", "^", "_",
      "GRAVE", "a", "b", "c", "d", "e", "f", "g", "h", "i", "j", "k", "l", "m", "n", "o",
      "p", "q", "r", "s", "t", "u", "v", "w", "x", "y", "z", "{", "|", "}", "~">>

\* The base64 alphabet of the standard library, value 0 first.
B64Alphabet ==
    <<"A", "B", "C", "D", "E", "F", "G", "H", "I", "J", "K", "L", "M", "N", "O", "P",
      "Q", "R", "S", "T", "U", "V", "W", "X", "Y", "Z", "a", "b", "c", "d", "e", "f",
      "g", "h", "i", "j", "k", "l", "m", "n", "o", "p", "q", "r", "s", "t", "u", "v",
      "w", "x", "y", "z", "0", "1", "2", "3", "4", "5", "6", "7", "8", "9", "+", "/">>

AsciiChars == {Ascii[i] : i \in 1..Len(Ascii)}

\* ord(c)
Ord == [c \in AsciiChars |-> 31 + (CHOOSE i \in 1..Len(Ascii) : Ascii[i] = c)]

\* chr(b) for a printable byte
Chr(b) == Ascii[b - 31]

B64Chars == {B64Alphabet[i] : i \in 1..Len(B64Alphabet)}

\* the 6-bit value of a base64 character
B64Value == [c \in B64Chars |-> (CHOOSE i \in 1..Len(B64Alphabet) : B64Alphabet[i] = c) - 1]

IsDigit(c) == c \in {"0", "1", "2", "3", "4", "5", "6", "7", "8", "9"}

IsSpace(c) == c = " "

\* str.lower() on one character
LowerChar(c) == IF Ord[c] >= 65 /\ Ord[c] <= 90 THEN Chr(Ord[c] + 32) ELSE c

\* str.upper() on one character
UpperChar(c) == IF Ord[c] >= 97 /\ Ord[c] <= 122 THEN Chr(Ord[c] - 32) ELSE c

(***************************************************************************)
(* str methods.                                                            *)
(***************************************************************************)

ToLower(s0) == Let(s0, LAMBDA s : [i \in 1..Len(s) |-> LowerChar(s[i])])

ToUpper(s0) == Let(s0, LAMBDA s : [i \in 1..Len(s) |-> UpperChar(s[i])])

\* s[i:]  (i is 1-based here)
From(s0, i) == Let(s0, LAMBDA s : SubSeq(s, i, Len(s)))

StartsWith(s0, p0) ==
    Let(s0, LAMBDA s : Let(p0, LAMBDA p :
        Len(s) >= Len(p) /\ SubSeq(s, 1, Len(p)) = p))

\* the positions at or after from at which p occurs in s
Occurrences(s0, p0, from) ==
    Let(s0, LAMBDA s : Let(p0, LAMBDA p :
        {i \in from..(Len(s) - Len(p) + 1) : SubSeq(s, i, i + Len(p) - 1) = p}))

\* the least index >= from at which p occurs in s, 0 when there is none
Find(s, p, from) ==
    Let(Occurrences(s, p, from), LAMBDA hits :
        IF hits = {} THEN 0 ELSE CHOOSE i \in hits : \A j \in hits : i <= j)

\* the greatest index at which p occurs in s, 0 when there is none
RFind(s, p) ==
    Let(Occurrences(s, p, 1), LAMBDA hits :
        IF hits = {} THEN 0 ELSE CHOOSE i \in hits : \A j \in hits : i >= j)

\* p in s
Contains(s, p) == Find(s, p, 1) # 0

\* s.replace(p, r), p not empty
RECURSIVE Replace(_, _, _)
Replace(s0, p, r) ==
    Let(s0, LAMBDA s : Let(Find(s, p, 1), LAMBDA i :
        IF i = 0 THEN s
        ELSE SubSeq(s, 1, i - 1) \o r \o Replace(From(s, i + Len(p)), p, r)))

\* s.split(sep), sep not empty: a sequence of strings
RECURSIVE Split(_, _)
Split(s0, sep) ==
    Let(s0, LAMBDA s : Let(Find(s, sep, 1), LAMBDA i :
        IF i = 0 THEN <<s>>
        ELSE <<SubSeq(s, 1, i - 1)>> \o Split(From(s, i + Len(sep)), sep)))

\* s.split(sep, 1)
Split1(s0, sep) ==
    Let(s0, LAMBDA s : Let(Find(s, sep, 1), LAMBDA i :
        IF i = 0 THEN <<s>>
        ELSE <<SubSeq(s, 1, i - 1), From(s, i + Len(sep))>>))

\* s.partition(sep)[0] and s.partition(sep)[2]
PartHead(s0, sep) ==
    Let(s0, LAMBDA s : Let(Find(s, sep, 1), LAMBDA i :
        IF i = 0 THEN s ELSE SubSeq(s, 1, i - 1)))
PartTail(s0, sep) ==
    Let(s0, LAMBDA s : Let(Find(s, sep, 1), LAMBDA i :
        IF i = 0 THEN <<>> ELSE From(s, i + Len(sep))))

\* s.rpartition(sep)[0] and s.rpartition(sep)[2]
RPartHead(s0, sep) ==
    Let(s0, LAMBDA s : Let(RFind(s, sep), LAMBDA i :
        IF i = 0 THEN <<>> ELSE SubSeq(s, 1, i - 1)))
RPartTail(s0, sep) ==
    Let(s0, LAMBDA s : Let(RFind(s, sep), LAMBDA i :
        IF i = 0 THEN s ELSE From(s, i + Len(sep))))

\* s.strip(): from the first to the last character that is not a space
Strip(s0) ==
    Let(s0, LAMBDA s : Let({i \in 1..Len(s) : ~IsSpace(s[i])}, LAMBDA keep :
        IF keep = {} THEN <<>>
        ELSE SubSeq(s, CHOOSE i \in keep : \A j \in keep : i <= j,
                       CHOOSE i \in keep : \A j \in keep : i >= j)))

\* s.lstrip()
LStrip(s0) ==
    Let(s0, LAMBDA s : Let({i \in 1..Len(s) : ~IsSpace(s[i])}, LAMBDA keep :
        IF keep = {} THEN <<>>
        ELSE SubSeq(s, CHOOSE i \in keep : \A j \in keep : i <= j, Len(s))))

(***************************************************************************)
(* Python values are tagged records, so that values of different types can *)
(* be compared: None, str (a sequence of characters), int, bool, bytes,    *)
(* list, dict (a function from keys to values), and Exc for a raised       *)
(* exception.                                                              *)
(***************************************************************************)

PyNone == [t |-> "None"]
PyStr(s) == [t |-> "str", s |-> s]
PyInt(n) == [t |-> "int", n |-> n]
PyBool(b) == [t |-> "bool", b |-> b]
PyList(items) == [t |-> "list", items |-> items]
PyDict(m) == [t |-> "dict", m |-> m]
PyBytes(b) == [t |-> "bytes", b |-> b]
Exc == [t |-> "exc"]

IsExc(v) == v = Exc

\* f with the value v at x
Put(f, x, v) == [y \in (DOMAIN f) \cup {x} |-> IF y = x THEN v ELSE f[y]]

(***************************************************************************)
(* base64.  b64encode builds the descriptors fed to the parsers; b64decode *)
(* is binascii.a2b_base64 in its default (non-strict) mode: characters     *)
(* outside the alphabet are discarded, a complete run of padding ends the  *)
(* decoding, and data characters left over in an incomplete quad raise     *)
(* binascii.Error.                                                         *)
(***************************************************************************)

\* the base64 characters of a group of one, two or three characters
B64Group(g) ==
    Let(Ord[g[1]] * 65536
          + (IF Len(g) >= 2 THEN Ord[g[2]] ELSE 0) * 256
          + (IF Len(g) >= 3 THEN Ord[g[3]] ELSE 0), LAMBDA n :
        <<B64Alphabet[(n \div 262144) + 1],
          B64Alphabet[((n \div 4096) % 64) + 1],
          IF Len(g) >= 2 THEN B64Alphabet[((n \div 64) % 64) + 1] ELSE "=",
          IF Len(g) >= 3 THEN B64Alphabet[(n % 64) + 1] ELSE "=">>)

\* base64.b64encode(s.encode()).decode(): s a string of printable characters
B64Encode(s0) ==
    Let(s0, LAMBDA s :
        [k \in 1..(((Len(s) + 2) \div 3) * 4) |->
            LET g == (k - 1) \div 4
            IN  B64Group(SubSeq(s, 3 * g + 1,
                                IF 3 * g + 3 <= Len(s) THEN 3 * g + 3 ELSE Len(s)))
                    [((k - 1) % 4) + 1]])

\* the characters of s that belong to the base64 alphabet, in order
DataChars(s0) ==
    Let(s0, LAMBDA s : Let({i \in 1..Len(s) : s[i] \in B64Chars}, LAMBDA data :
        [k \in 1..Cardinality(data) |->
            s[CHOOSE i \in data : Cardinality({j \in data : j <= i}) = k]]))

\* quad_pos of a2b_base64 when it reads position i: the data characters read
\* before i, modulo 4
QuadAt(s, i) == Cardinality({j \in 1..(i - 1) : s[j] \in B64Chars}) % 4

\* pads of a2b_base64 after it has read the "=" at position i: the "="
\* characters read since the last data character
PadsAt(s, i) ==
    Cardinality({j \in 1..i : s[j] = "=" /\ \A k \in j..i : s[k] \notin B64Chars})

\* the position of the "=" at which a2b_base64 stops reading (a quad of two
\* or three data characters completed by padding), 0 when it reads all of s
PadStop(s0) ==
    Let(s0, LAMBDA s :
        Let({i \in 1..Len(s) : /\ s[i] = "="
                               /\ QuadAt(s, i) >= 2
                               /\ QuadAt(s, i) + PadsAt(s, i) >= 4}, LAMBDA hits :
            IF hits = {} THEN 0 ELSE CHOOSE i \in hits : \A j \in hits : i <= j))

\* the bytes that the data characters d encode: three for each full quad,
\* one or two for a last quad of two or three characters
QuadBytes(d0) ==
    Let(d0, LAMBDA d :
        [k \in 1..((Len(d) \div 4) * 3
                     + (IF Len(d) % 4 = 2 THEN 1 ELSE IF Len(d) % 4 = 3 THEN 2 ELSE 0)) |->
            LET g == ((k - 1) \div 3) * 4
                m == (k - 1) % 3
            IN  IF m = 0 THEN B64Value[d[g + 1]] * 4 + (B64Value[d[g + 2]] \div 16)
                ELSE IF m = 1
                THEN (B64Value[d[g + 2]] % 16) * 16 + (B64Value[d[g + 3]] \div 4)
                ELSE (B64Value[d[g + 3]] % 4) * 64 + B64Value[d[g + 4]]])

\* base64.b64decode(s), that is binascii.a2b_base64(s): bytes, or Exc
\* (binascii.Error) when the data characters do not fill their last quad
B64DecodeBytes(s0) ==
    Let(s0, LAMBDA s : Let(PadStop(s), LAMBDA stop :
        Let(DataChars(IF stop = 0 THEN s ELSE SubSeq(s, 1, stop - 1)), LAMBDA d :
            IF stop = 0 /\ Len(d) % 4 # 0 THEN Exc ELSE PyBytes(QuadBytes(d)))))

\* bytes.decode('utf-8') on bytes of the printable ASCII range; any other
\* byte is outside the characters the model carries and is reported as the
\* UnicodeDecodeError a stray high byte gives.
Utf8Decode(bytes0) ==
    Let(bytes0, LAMBDA bytes :
        IF \A k \in 1..Len(bytes) : bytes[k] >= 32 /\ bytes[k] <= 126
        THEN PyStr([k \in 1..Len(bytes) |-> Chr(bytes[k])])
        ELSE Exc)

\* base64.b64decode(s).decode('utf-8'): a str, or Exc
B64Decode(s) ==
    Let(B64DecodeBytes(s), LAMBDA bytes :
        IF IsExc(bytes) THEN Exc ELSE Utf8Decode(bytes.b))

(***************************************************************************)
(* json.loads, on the documents the descriptors carry: objects, arrays,    *)
(* strings without escapes, integers, true, false and null, with optional  *)
(* spaces between tokens.  Any other text is a JSONDecodeError; numbers    *)
(* with a fraction or an exponent are not among the documents.             *)
(***************************************************************************)

\* the result of parsing one JSON value: the value and the position after it
JsonOk(v, i) == [ok |-> TRUE, v |-> v, i |-> i]
JsonFail == [ok |-> FALSE, v |-> Exc, i |-> 0]

\* the position of the first character at or after i that is not a space
SkipSpace(s, i) ==
    Let({j \in i..Len(s) : ~IsSpace(s[j])}, LAMBDA rest :
        IF rest = {} THEN (IF i > Len(s) THEN i ELSE Len(s) + 1)
        ELSE CHOOSE j \in rest : \A k \in rest : j <= k)

\* the position after the run of digits starting at i
SkipDigits(s, i) ==
    Let({j \in i..Len(s) : ~IsDigit(s[j])}, LAMBDA rest :
        IF rest = {} THEN (IF i > Len(s) THEN i ELSE Len(s) + 1)
        ELSE CHOOSE j \in rest : \A k \in rest : j <= k)

\* the number a sequence of digits denotes
RECURSIVE DigitsValue(_)
DigitsValue(d0) ==
    Let(d0, LAMBDA d :
        IF d = <<>> THEN 0
        ELSE DigitsValue(SubSeq(d, 1, Len(d) - 1)) * 10 + (Ord[d[Len(d)]] - 48))

RECURSIVE JsonValue(_, _)
RECURSIVE JsonElems(_, _, _)
RECURSIVE JsonMembers(_, _, _)

\* one element of an array and the position of the "]" or "," after it
JsonElem(s, i0) ==
    Let(JsonValue(s, i0), LAMBDA r :
    Let(IF r.ok THEN SkipSpace(s, r.i) ELSE 0, LAMBDA i :
        IF ~r.ok \/ i > Len(s) THEN JsonFail ELSE JsonOk(r.v, i)))

\* the elements of an array after "[" or ",": acc holds those parsed so far
JsonElems(s, i0, acc0) ==
    Let(<<acc0, JsonElem(s, i0)>>, LAMBDA p :
        IF ~p[2].ok THEN JsonFail
        ELSE IF s[p[2].i] = "]" THEN JsonOk(PyList(Append(p[1], p[2].v)), p[2].i + 1)
        ELSE IF s[p[2].i] = "," THEN JsonElems(s, p[2].i + 1, Append(p[1], p[2].v))
        ELSE JsonFail)

\* one member of an object, key and value, and the position of the "}" or ","
\* after it
JsonMember(s, i0) ==
    Let(JsonValue(s, i0), LAMBDA k :
    Let(IF k.ok THEN SkipSpace(s, k.i) ELSE 0, LAMBDA ic :
        IF ~k.ok \/ k.v.t # "str" \/ ic > Len(s) THEN JsonFail
        ELSE IF s[ic] # ":" THEN JsonFail
        ELSE Let(JsonValue(s, ic + 1), LAMBDA r :
             Let(IF r.ok THEN SkipSpace(s, r.i) ELSE 0, LAMBDA i :
                 IF ~r.ok \/ i > Len(s) THEN JsonFail
                 ELSE JsonOk([key |-> k.v.s, value |-> r.v], i)))))

\* the members of an object after "{" or ",": acc holds those parsed so far;
\* a repeated key keeps its last value
JsonMembers(s, i0, acc0) ==
    Let(<<acc0, JsonMember(s, i0)>>, LAMBDA p :
        IF ~p[2].ok THEN JsonFail
        ELSE IF s[p[2].i] = "}"
        THEN JsonOk(PyDict(Put(p[1], p[2].v.key, p[2].v.value)), p[2].i + 1)
        ELSE IF s[p[2].i] = ","
        THEN JsonMembers(s, p[2].i + 1, Put(p[1], p[2].v.key, p[2].v.value))
        ELSE JsonFail)

\* a JSON string whose opening quote is at position i
JsonString(s, i) ==
    Let(Find(s, <<"\"">>, i + 1), LAMBDA e :
        IF e = 0 THEN JsonFail
        ELSE IF Contains(SubSeq(s, i + 1, e - 1), <<"\\">>) THEN JsonFail
        ELSE JsonOk(PyStr(SubSeq(s, i + 1, e - 1)), e + 1))

\* a JSON number without sign whose first digit is at position i
JsonNumber(s, i) ==
    Let(SkipDigits(s, i), LAMBDA e :
        IF (e <= Len(s) /\ s[e] \in {".", "e", "E"}) \/ (s[i] = "0" /\ e > i + 1)
        THEN JsonFail
        ELSE JsonOk(PyInt(DigitsValue(SubSeq(s, i, e - 1))), e))

\* a JSON number whose minus sign is at position i
JsonNegative(s, i) ==
    Let(SkipDigits(s, i + 1), LAMBDA e :
        IF e = i + 1 \/ (e <= Len(s) /\ s[e] \in {".", "e", "E"})
           \/ (s[i + 1] = "0" /\ e > i + 2)
        THEN JsonFail
        ELSE JsonOk(PyInt(0 - DigitsValue(SubSeq(s, i + 1, e - 1))), e))

\* the character that closes an empty array or object opened at position i
\* is the next one that is not a space
JsonEmpty(s, i, close) ==
    SkipSpace(s, i + 1) <= Len(s) /\ s[SkipSpace(s, i + 1)] = close

\* one JSON value starting at or after position i0
JsonValue(s, i0) ==
    Let(SkipSpace(s, i0), LAMBDA i :
        CASE i > Len(s) -> JsonFail
          [] i <= Len(s) /\ s[i] = "{" ->
                IF JsonEmpty(s, i, "}") THEN JsonOk(PyDict(<<>>), SkipSpace(s, i + 1) + 1)
                ELSE JsonMembers(s, i + 1, <<>>)
          [] i <= Len(s) /\ s[i] = "[" ->
                IF JsonEmpty(s, i, "]") THEN JsonOk(PyList(<<>>), SkipSpace(s, i + 1) + 1)
                ELSE JsonElems(s, i + 1, <<>>)
          [] i <= Len(s) /\ s[i] = "\"" -> JsonString(s, i)
          [] i <= Len(s) /\ IsDigit(s[i]) -> JsonNumber(s, i)
          [] i <= Len(s) /\ s[i] = "-" -> JsonNegative(s, i)
          [] StartsWith(From(s, i), <<"n", "u", "l", "l">>) -> JsonOk(PyNone, i + 4)
          [] StartsWith(From(s, i), <<"t", "r", "u", "e">>) -> JsonOk(PyBool(TRUE), i + 4)
          [] StartsWith(From(s, i), <<"f", "a", "l", "s", "e">>) -> JsonOk(PyBool(FALSE), i + 5)
          [] OTHER -> JsonFail)

\* json.loads(s): the value, or Exc when s is not one JSON document
JsonLoads(s0) ==
    Let(s0, LAMBDA s : Let(JsonValue(s, 1), LAMBDA r :
        IF r.ok /\ SkipSpace(s, r.i) > Len(s) THEN r.v ELSE Exc))

(***************************************************************************)
(* Python built-ins the parsers use.                                       *)
(***************************************************************************)

\* bool(v)
Truthy(v) ==
    CASE v.t = "None"  -> FALSE
      [] v.t = "str"   -> v.s # <<>>
      [] v.t = "int"   -> v.n # 0
      [] v.t = "bool"  -> v.b
      [] v.t = "list"  -> v.items # <<>>
      [] v.t = "dict"  -> DOMAIN v.m # {}
      [] OTHER         -> FALSE

\* v.get(key, default): AttributeError (Exc) unless v is a dict
DictGet(v, key, default) ==
    IF v.t # "dict" THEN Exc
    ELSE IF key \in DOMAIN v.m THEN v.m[key] ELSE default

\* int(text) for a str: optional surrounding spaces, optional sign, digits
IntOfText(text) ==
    Let(Strip(text), LAMBDA u :
    Let(IF u # <<>> /\ u[1] \in {"+", "-"} THEN Tail(u) ELSE u, LAMBDA d :
        IF d = <<>> \/ \E k \in 1..Len(d) : ~IsDigit(d[k]) THEN Exc
        ELSE IF u[1] = "-" THEN PyInt(0 - DigitsValue(d))
        ELSE PyInt(DigitsValue(d))))

\* int(v): ValueError for a str that is not a number, TypeError for None,
\* a list or a dict
IntOf(v) ==
    CASE v.t = "int"  -> v
      [] v.t = "bool" -> PyInt(IF v.b THEN 1 ELSE 0)
      [] v.t = "str"  -> IntOfText(v.s)
      [] OTHER        -> Exc

(***************************************************************************)
(* urllib.parse: urlparse, the hostname, username and port properties of   *)
(* its result, and parse_qs.  Percent-escapes are not carried by the       *)
(* model's descriptors.                                                    *)
(***************************************************************************)

IsAlpha(c) == (Ord[c] >= 65 /\ Ord[c] <= 90) \/ (Ord[c] >= 97 /\ Ord[c] <= 122)

IsSchemeChar(c) == IsAlpha(c) \/ IsDigit(c) \/ c \in {"+", "-", "."}

IsHexDigit(c) == IsDigit(c) \/ LowerChar(c) \in {"a", "b", "c", "d", "e", "f"}

\* the least position of a character of "/?#" in s, Len(s) + 1 when none
NetlocEnd(s) ==
    Let({i \in 1..Len(s) : s[i] \in {"/", "?", "#"}}, LAMBDA hits :
        IF hits = {} THEN Len(s) + 1 ELSE CHOOSE i \in hits : \A j \in hits : i <= j)

\* the text between "[" and "]" of a netloc is accepted when it reads as an
\* IPv6 address
IsBracketedHostOk(netloc) ==
    Let(PartHead(PartTail(netloc, <<"[">>), <<"]">>), LAMBDA h :
        /\ Contains(h, <<":">>)
        /\ \A k \in 1..Len(h) : IsHexDigit(h[k]) \/ h[k] \in {":", "."})

\* the scheme of a URL: its lower-cased text before the first ":" when that
\* is a scheme name, otherwise empty
UrlScheme(url) ==
    Let(Find(url, <<":">>, 1), LAMBDA c :
        IF c > 1 /\ IsAlpha(url[1]) /\ \A k \in 1..(c - 1) : IsSchemeChar(url[k])
        THEN ToLower(SubSeq(url, 1, c - 1))
        ELSE <<>>)

\* urlparse(config): scheme, netloc and query, or Exc (ValueError: a netloc
\* with unbalanced brackets or a bracketed host that is no IPv6 address)
UrlParse(config) ==
    Let(LStrip(config), LAMBDA url0 :
    Let(UrlScheme(url0), LAMBDA scheme :
    Let(IF scheme # <<>> THEN From(url0, Len(scheme) + 2) ELSE url0, LAMBDA url1 :
    Let(IF StartsWith(url1, <<"/", "/">>) THEN From(url1, 3) ELSE <<>>, LAMBDA rest :
    Let(IF StartsWith(url1, <<"/", "/">>) THEN SubSeq(rest, 1, NetlocEnd(rest) - 1)
        ELSE <<>>, LAMBDA netloc :
    Let(IF StartsWith(url1, <<"/", "/">>) THEN From(rest, NetlocEnd(rest))
        ELSE url1, LAMBDA url2 :
        IF Contains(netloc, <<"[">>) # Contains(netloc, <<"]">>) THEN Exc
        ELSE IF Contains(netloc, <<"[">>) /\ ~IsBracketedHostOk(netloc) THEN Exc
        ELSE [t |-> "url", scheme |-> scheme, netloc |-> netloc,
              query |-> PartTail(PartHead(url2, <<"#">>), <<"?">>)]))))))

\* the (hostname, port) texts of a netloc, as SplitResult._hostinfo
HostInfo(netloc) ==
    Let(RPartTail(netloc, <<"@">>), LAMBDA hostinfo :
        IF Contains(hostinfo, <<"[">>)
        THEN Let(PartTail(hostinfo, <<"[">>), LAMBDA bracketed :
                 [host |-> PartHead(bracketed, <<"]">>),
                  port |-> PartTail(PartTail(bracketed, <<"]">>), <<":">>)])
        ELSE [host |-> PartHead(hostinfo, <<":">>), port |-> PartTail(hostinfo, <<":">>)])

\* url.hostname: the lower-cased host, None when it is empty
UrlHostname(url) ==
    Let(HostInfo(url.netloc).host, LAMBDA h :
        IF h = <<>> THEN PyNone ELSE PyStr(ToLower(h)))

\* url.username: None without "@"
UrlUsername(url) ==
    IF ~Contains(url.netloc, <<"@">>) THEN PyNone
    ELSE PyStr(PartHead(RPartHead(url.netloc, <<"@">>), <<":">>))

MaxPort == 65535

\* url.port: None without a port, ValueError (Exc) for a port that is not
\* made of digits or is above MaxPort
UrlPort(url) ==
    Let(HostInfo(url.netloc).port, LAMBDA p :
        IF p = <<>> THEN PyNone
        ELSE IF \E k \in 1..Len(p) : ~IsDigit(p[k]) THEN Exc
        ELSE IF DigitsValue(p) > MaxPort THEN Exc
        ELSE PyInt(DigitsValue(p)))

\* unquote(text.replace('+', ' ')) on text without percent-escapes
UnquotePlus(text0) ==
    Let(text0, LAMBDA text :
        [k \in 1..Len(text) |-> IF text[k] = "+" THEN " " ELSE text[k]])

\* parse_qs(query).get(name, [default])[0]: the value of the first pair
\* name=value of the query whose value is not blank
RECURSIVE QsFirstIn(_, _, _)
QsFirstIn(pairs0, name, default) ==
    Let(pairs0, LAMBDA pairs :
        IF pairs = <<>> THEN default
        ELSE Let(Split1(pairs[1], <<"=">>), LAMBDA nv :
                 IF Len(nv) = 2 /\ nv[2] # <<>> /\ UnquotePlus(nv[1]) = name
                 THEN UnquotePlus(nv[2])
                 ELSE QsFirstIn(Tail(pairs), name, default)))

QsFirst(query, name, default) == QsFirstIn(Split(query, <<"&">>), name, default)

(***************************************************************************)
(* The descriptor parsers of ConfigToSingbox.  Each returns a canonical    *)
(* record (a dict, here a record of Python values), None, or Exc when an   *)
(* exception leaves the function.                                          *)
(***************************************************************************)

DefaultPort == 443

\* decode_vmess(config): the decoded JSON value, None on any exception
decode_vmess(config) ==
    Let(B64Decode(Replace(config, <<"v", "m", "e", "s", "s", ":", "/", "/">>, <<>>)), LAMBDA decoded :
    Let(IF IsExc(decoded) THEN Exc ELSE JsonLoads(decoded.s), LAMBDA loaded :
        IF IsExc(loaded) THEN PyNone ELSE loaded))

\* int(vm.get('port', 0)) if vm.get('port') else 0
VmessPort(vm) ==
    IF Truthy(DictGet(vm, <<"p", "o", "r", "t">>, PyNone))
    THEN IntOf(DictGet(vm, <<"p", "o", "r", "t">>, PyInt(0)))
    ELSE PyInt(0)

\* the vmess branch of parse_any: no try block surrounds the field accesses,
\* so vm.get on a value that is not a dict, and int() of a port that is not
\* a number, leave parse_any as exceptions
parse_vmess(raw) ==
    Let(decode_vmess(raw), LAMBDA vm :
        IF ~Truthy(vm) THEN PyNone
        ELSE IF vm.t # "dict" THEN Exc
        ELSE Let(VmessPort(vm), LAMBDA port :
                 IF IsExc(port) THEN Exc
                 ELSE [proto   |-> PyStr(<<"v", "m", "e", "s", "s">>),
                       address |-> DictGet(vm, <<"a", "d", "d">>, PyNone),
                       port    |-> port,
                       id      |-> DictGet(vm, <<"i", "d">>, PyNone),
                       net     |-> DictGet(vm, <<"n", "e", "t">>, PyStr(<<"t", "c", "p">>)),
                       path    |-> DictGet(vm, <<"p", "a", "t", "h">>, PyStr(<<>>)),
                       host    |-> DictGet(vm, <<"h", "o", "s", "t">>, PyStr(<<>>)),
                       tls     |-> DictGet(vm, <<"t", "l", "s">>, PyStr(<<>>))]))

\* the text of the port that parse_vless uses when the netloc has no ":"
VlessDefaultPort == <<"4", "4", "3">>

\* netloc.split(':') if ':' in netloc else (netloc, '443'), for the netloc
\* after the last "@"
VlessHostPort(netloc) ==
    IF Contains(netloc, <<":">>) THEN Split(netloc, <<":">>)
    ELSE <<netloc, VlessDefaultPort>>

parse_vless(config) ==
    Let(UrlParse(config), LAMBDA url :
        IF IsExc(url) THEN PyNone
        ELSE IF url.scheme # <<"v", "l", "e", "s", "s">> \/ ~Truthy(UrlHostname(url)) THEN PyNone
        ELSE Let(VlessHostPort(RPartTail(url.netloc, <<"@">>)), LAMBDA hp :
                 IF Len(hp) # 2 THEN PyNone
                 ELSE Let(IntOfText(hp[2]), LAMBDA port :
                      IF IsExc(port) THEN PyNone
                      ELSE [proto   |-> PyStr(<<"v", "l", "e", "s", "s">>),
                            address |-> PyStr(hp[1]),
                            port    |-> port,
                            uuid    |-> UrlUsername(url),
                            flow    |-> PyStr(QsFirst(url.query, <<"f", "l", "o", "w">>, <<>>)),
                            sni     |-> PyStr(QsFirst(url.query, <<"s", "n", "i">>, hp[1])),
                            type    |-> PyStr(QsFirst(url.query, <<"t", "y", "p", "e">>, <<"t", "c", "p">>)),
                            path    |-> PyStr(QsFirst(url.query, <<"p", "a", "t", "h">>, <<>>)),
                            host    |-> PyStr(QsFirst(url.query, <<"h", "o", "s", "t">>, <<>>))])))

\* url.port alone: the port of a parse_trojan that applies no default
TrojanPortUnset(uport) == uport

\* url.port or 443
TrojanPort(uport) == IF Truthy(uport) THEN uport ELSE PyInt(DefaultPort)

parse_trojan(config) ==
    Let(UrlParse(config), LAMBDA url :
        IF IsExc(url) THEN PyNone
        ELSE IF url.scheme # <<"t", "r", "o", "j", "a", "n">> \/ ~Truthy(UrlHostname(url)) THEN PyNone
        ELSE Let(UrlPort(url), LAMBDA uport : Let(UrlHostname(url).s, LAMBDA hostname :
                 IF IsExc(uport) THEN PyNone
                 ELSE [proto    |-> PyStr(<<"t", "r", "o", "j", "a", "n">>),
                       address  |-> PyStr(hostname),
                       port     |-> TrojanPort(uport),
                       password |-> UrlUsername(url),
                       sni      |-> PyStr(QsFirst(url.query, <<"s", "n", "i">>, hostname)),
                       alpn     |-> PyStr(QsFirst(url.query, <<"a", "l", "p", "n">>, <<>>)),
                       type     |-> PyStr(QsFirst(url.query, <<"t", "y", "p", "e">>, <<"t", "c", "p">>)),
                       path     |-> PyStr(QsFirst(url.query, <<"p", "a", "t", "h">>, <<>>))])))

\* dict(pair.split('=') for pair in pairs), from the pairs left to convert
\* and the dict built so far: ValueError (Exc) for a pair that does not
\* split in two
RECURSIVE QueryDict(_, _)
QueryDict(pairs0, acc0) ==
    Let(pairs0, LAMBDA pairs : Let(acc0, LAMBDA acc :
        IF pairs = <<>> THEN PyDict(acc)
        ELSE Let(Split(pairs[1], <<"=">>), LAMBDA kv :
                 IF Len(kv) # 2 THEN Exc
                 ELSE QueryDict(Tail(pairs), Put(acc, kv[1], PyStr(kv[2]))))))

\* url.username or query.get('password', '')
Hysteria2Password(user, query) ==
    IF Truthy(user) THEN user ELSE DictGet(query, <<"p", "a", "s", "s", "w", "o", "r", "d">>, PyStr(<<>>))

parse_hysteria2(config) ==
    Let(UrlParse(config), LAMBDA url :
        IF IsExc(url) THEN PyNone
        ELSE IF url.scheme \notin {<<"h", "y", "s", "t", "e", "r", "i", "a", "2">>, <<"h", "y", "2">>} \/ ~Truthy(UrlHostname(url))
        THEN PyNone
        ELSE Let(UrlPort(url), LAMBDA uport :
                 IF IsExc(uport) THEN PyNone
                 ELSE IF ~Truthy(uport) THEN PyNone
                 ELSE Let(IF url.query # <<>>
                          THEN QueryDict(Split(url.query, <<"&">>), <<>>)
                          ELSE PyDict(<<>>), LAMBDA query :
                      IF IsExc(query) THEN PyNone
                      ELSE [proto    |-> PyStr(<<"h", "y", "s", "t", "e", "r", "i", "a", "2">>),
                            address  |-> UrlHostname(url),
                            port     |-> uport,
                            password |-> Hysteria2Password(UrlUsername(url), query),
                            sni      |-> DictGet(query, <<"s", "n", "i">>, UrlHostname(url))])))

parse_shadowsocks(config) ==
    Let(Split(Replace(config, <<"s", "s", ":", "/", "/">>, <<>>), <<"@">>), LAMBDA parts :
        IF Len(parts) # 2 THEN PyNone
        ELSE Let(B64Decode(parts[1]), LAMBDA method_pass :
                 IF IsExc(method_pass) THEN PyNone
                 ELSE Let(Split1(method_pass.s, <<":">>), LAMBDA mp :
                      Let(Split(Split(parts[2], <<"#">>)[1], <<":">>), LAMBDA hp :
                          IF Len(mp) # 2 \/ Len(hp) # 2 THEN PyNone
                          ELSE Let(IntOfText(hp[2]), LAMBDA port :
                               IF IsExc(port) THEN PyNone
                               ELSE [proto    |-> PyStr(<<"s", "h", "a", "d", "o", "w", "s", "o", "c", "k", "s">>),
                                     address  |-> PyStr(hp[1]),
                                     port     |-> port,
                                     method   |-> PyStr(mp[1]),
                                     password |-> PyStr(mp[2])])))))

\* parse_any(raw): the canonical record of one line, None, or Exc
parse_any(raw0) ==
    Let(Strip(raw0), LAMBDA raw : Let(ToLower(raw), LAMBDA lower :
        IF raw = <<>> THEN PyNone
        ELSE IF StartsWith(lower, <<"v", "m", "e", "s", "s", ":", "/", "/">>) THEN parse_vmess(raw)
        ELSE IF StartsWith(lower, <<"v", "l", "e", "s", "s", ":", "/", "/">>) THEN parse_vless(raw)
        ELSE IF StartsWith(lower, <<"t", "r", "o", "j", "a", "n", ":", "/", "/">>) THEN parse_trojan(raw)
        ELSE IF StartsWith(lower, <<"h", "y", "s", "t", "e", "r", "i", "a", "2", ":", "/", "/">>) \/ StartsWith(lower, <<"h", "y", "2", ":", "/", "/">>)
        THEN parse_hysteria2(raw)
        ELSE IF StartsWith(lower, <<"s", "s", ":", "/", "/">>) THEN parse_shadowsocks(raw)
        ELSE PyNone))

\* a value returned by a parser that is a canonical record
IsRecord(v) == "proto" \in DOMAIN v

(***************************************************************************)
(* Module-level filters (lines 18-29).  A filter variable of the           *)
(* environment is a str, or None when it is not set; a compiled pattern    *)
(* "(a|b|...)" is kept as the sequence of its alternatives.                *)
(***************************************************************************)

\* [c.strip() for c in parts if c.strip()]
RECURSIVE StripNonEmpty(_)
StripNonEmpty(parts) ==
    IF parts = <<>> THEN <<>>
    ELSE (IF Strip(parts[1]) # <<>> THEN <<Strip(parts[1])>> ELSE <<>>)
         \o StripNonEmpty(Tail(parts))

\* re.compile("(" + "|".join(...) + ")", re.IGNORECASE) for a filter value
\* env: the alternatives of the pattern, or Exc (AttributeError: None has no
\* split) when the variable is not set
CompileFilter(env) ==
    IF env.t # "str" THEN Exc ELSE PyList(StripNonEmpty(Split(env.s, <<",">>)))

\* pattern.search(text) is not None: some alternative occurs in text, letter
\* case ignored; the pattern "()" of an empty filter matches every text
PatternSearch(pattern, text) ==
    \/ pattern = <<>>
    \/ \E k \in 1..Len(pattern) : Contains(ToLower(text), ToLower(pattern[k]))

(***************************************************************************)
(* clean_isp_name (lines 87-101).                                          *)
(***************************************************************************)

STOPWORDS ==
    {<<"S", "A", "S">>, <<"I", "N", "C">>, <<"L", "T", "D">>, <<"L", "L", "C">>, <<"C", "O", "R", "P">>, <<"C", "O">>, <<"S", "A">>, <<"S", "R", "O">>, <<"A", "S", "N">>,
     <<"L", "I", "M", "I", "T", "E", "D">>, <<"C", "O", "M", "P", "A", "N", "Y">>, <<"A", "S", "I", "A">>, <<"C", "L", "O", "U", "D">>, <<"I", "N", "T", "E", "R", "N", "A", "T", "I", "O", "N", "A", "L">>,
     <<"P", "R", "O", "V", "I", "D", "E", "R">>, <<"I", "S", "L", "A", "N", "D">>, <<"P", "R", "I", "V", "A", "T", "E">>, <<"O", "N", "L", "I", "N", "E">>, <<"O", "F">>, <<"A", "S">>, <<"B", "V">>,
     <<"H", "K">>, <<"M", "S", "N">>, <<"B", "M", "C">>, <<"P", "T", "E">>}

\* the same list with the stopwords compared in the case of the word
RECURSIVE SignificantWordsCaseSensitive(_)
SignificantWordsCaseSensitive(text) ==
    LET t == LStrip(text)
        w == PartHead(t, <<" ">>)
    IN  IF t = <<>> THEN <<>>
        ELSE (IF w \notin STOPWORDS THEN <<w>> ELSE <<>>)
             \o SignificantWordsCaseSensitive(PartTail(t, <<" ">>))

\* [w for w in text.split() if w and w.upper() not in STOPWORDS]
RECURSIVE SignificantWords(_)
SignificantWords(text) ==
    LET t == LStrip(text)
        w == PartHead(t, <<" ">>)
    IN  IF t = <<>> THEN <<>>
        ELSE (IF ToUpper(w) \notin STOPWORDS THEN <<w>> ELSE <<>>)
             \o SignificantWords(PartTail(t, <<" ">>))

clean_isp_name(isp) ==
    LET isp_raw == Strip(Replace(Replace(IF isp # <<>> THEN isp ELSE <<"U", "n", "k", "n", "o", "w", "n">>,
                                         <<".">>, <<>>), <<",">>, <<>>))
        parts   == SignificantWords(Replace(isp_raw, <<"-">>, <<" ">>))
    IN  IF Len(parts) >= 2 THEN parts[1] \o <<" ">> \o parts[2]
        ELSE IF Len(parts) = 1 THEN parts[1]
        ELSE <<"U", "n", "k", "n", "o", "w", "n">>

(***************************************************************************)
(* make_outbound_from_parsed (lines 250-314).                              *)
(***************************************************************************)

\* str(n) for n >= 0
RECURSIVE IntToText(_)
IntToText(n) ==
    IF n < 10 THEN <<Chr(48 + n)>> ELSE IntToText(n \div 10) \o <<Chr(48 + (n % 10))>>

\* a TLS sub-object that asks for the certificate to be verified
TlsVerified == PyBool(FALSE)

\* "insecure": True in the TLS sub-object of an outbound (lines 270, 286,
\* 299, 306)
TlsInsecure == PyBool(TRUE)

\* a value that cannot be a member of a set or a key of a dict
Unhashable(v) == v.t \in {"list", "dict"}

\* a or b
PyOr(a, b) == IF Truthy(a) THEN a ELSE b

\* the transport dict built from the entries (key, value, present)
TransportDict(path, host, type) ==
    PyDict([k \in (IF Truthy(path) THEN {<<"p", "a", "t", "h">>} ELSE {})
                  \cup (IF Truthy(host) THEN {<<"h", "e", "a", "d", "e", "r", "s">>} ELSE {})
                  \cup {<<"t", "y", "p", "e">>} |->
              IF k = <<"p", "a", "t", "h">> THEN path
              ELSE IF k = <<"h", "e", "a", "d", "e", "r", "s">> THEN PyDict([h \in {<<"H", "o", "s", "t">>} |-> host])
              ELSE type])

\* alpn.split(',') as a list of str
AlpnList(alpn) ==
    LET parts == Split(alpn.s, <<",">>)
    IN  PyList([k \in 1..Len(parts) |-> PyStr(parts[k])])

\* make_outbound_from_parsed(parsed, tag_map): the outbound, or None; the
\* records of the parsers always carry proto and port; tag_map.get raises
\* TypeError for an address that is a list or a dict (line 256)
make_outbound_from_parsed(parsed, tag_map) ==
    LET proto   == parsed.proto
        address == parsed.address
        tag     == IF address \in DOMAIN tag_map THEN PyStr(tag_map[address])
                   ELSE PyStr(<<"U", "N", "K", " ", "1", " ", "-", " ", "(", ")">>)
    IN  IF ~Truthy(proto) \/ ~Truthy(address) THEN PyNone
        ELSE IF Unhashable(address) THEN Exc
        ELSE IF proto.s = <<"v", "m", "e", "s", "s">>
        THEN [type |-> PyStr(<<"v", "m", "e", "s", "s">>), tag |-> tag, server |-> address,
              server_port |-> parsed.port, uuid |-> parsed.id,
              security |-> PyStr(<<"a", "u", "t", "o">>),
              transport |-> IF parsed.net \in {PyStr(<<"w", "s">>), PyStr(<<"h", "2">>)}
                            THEN TransportDict(parsed.path, parsed.host, parsed.net)
                            ELSE PyDict(<<>>),
              tls |-> [enabled |-> PyBool(parsed.tls = PyStr(<<"t", "l", "s">>)),
                       insecure |-> TlsInsecure,
                       server_name |-> PyOr(parsed.host, address)]]
        ELSE IF proto.s = <<"v", "l", "e", "s", "s">>
        THEN [type |-> PyStr(<<"v", "l", "e", "s", "s">>), tag |-> tag, server |-> address,
              server_port |-> parsed.port, uuid |-> parsed.uuid, flow |-> parsed.flow,
              tls |-> [enabled |-> PyBool(TRUE),
                       server_name |-> PyOr(parsed.sni, address),
                       insecure |-> TlsInsecure],
              transport |-> IF parsed.type = PyStr(<<"w", "s">>)
                            THEN TransportDict(parsed.path, parsed.host, PyStr(<<"w", "s">>))
                            ELSE PyDict(<<>>)]
        ELSE IF proto.s = <<"t", "r", "o", "j", "a", "n">>
        THEN [type |-> PyStr(<<"t", "r", "o", "j", "a", "n">>), tag |-> tag, server |-> address,
              server_port |-> parsed.port, password |-> parsed.password,
              tls |-> [enabled |-> PyBool(TRUE),
                       server_name |-> PyOr(parsed.sni, address),
                       alpn |-> IF Truthy(parsed.alpn) THEN AlpnList(parsed.alpn)
                                ELSE PyList(<<>>),
                       insecure |-> TlsInsecure],
              transport |-> IF parsed.type # PyStr(<<"t", "c", "p">>) /\ Truthy(parsed.path)
                            THEN TransportDict(parsed.path, PyNone, parsed.type)
                            ELSE PyDict(<<>>)]
        ELSE IF proto.s = <<"h", "y", "s", "t", "e", "r", "i", "a", "2">>
        THEN [type |-> PyStr(<<"h", "y", "s", "t", "e", "r", "i", "a", "2">>), tag |-> tag, server |-> address,
              server_port |-> parsed.port, password |-> parsed.password,
              tls |-> [enabled |-> PyBool(TRUE),
                       insecure |-> TlsInsecure,
                       server_name |-> PyOr(parsed.sni, address)]]
        ELSE IF proto.s = <<"s", "h", "a", "d", "o", "w", "s", "o", "c", "k", "s">>
        THEN [type |-> PyStr(<<"s", "h", "a", "d", "o", "w", "s", "o", "c", "k", "s">>), tag |-> tag, server |-> address,
              server_port |-> parsed.port, method |-> parsed.method,
              password |-> parsed.password]
        ELSE PyNone

(***************************************************************************)
(* Descriptors: the lines the parsers are given, built from their parts.   *)
(***************************************************************************)

\* ss://base64(method:password)@host:port
SsFormA(d) ==
    <<"s", "s", ":", "/", "/">> \o B64Encode(d.method \o <<":">> \o d.password)
        \o <<"@">> \o d.host \o <<":">> \o d.port

\* ss://base64(method:password)@host:port#name
SsFormANamed(d, name) == SsFormA(d) \o <<"#">> \o name

\* ss://base64(method:password@host:port)
SsFormB(d) ==
    <<"s", "s", ":", "/", "/">> \o B64Encode(d.method \o <<":">> \o d.password
                               \o <<"@">> \o d.host \o <<":">> \o d.port)

\* vmess://base64(doc)
VmessUrl(doc) == <<"v", "m", "e", "s", "s", ":", "/", "/">> \o B64Encode(doc)

\* text without its trailing "=" characters
RECURSIVE StripPadding(_)
StripPadding(text) ==
    IF text # <<>> /\ text[Len(text)] = "="
    THEN StripPadding(SubSeq(text, 1, Len(text) - 1))
    ELSE text

\* scheme://[user@]host[:port][?query]; u.user, u.port and u.query are None
\* when the part is absent
Url(u) ==
    u.scheme \o <<":", "/", "/">>
        \o (IF u.user.t = "str" THEN u.user.s \o <<"@">> ELSE <<>>)
        \o u.host
        \o (IF u.port.t = "str" THEN <<":">> \o u.port.s ELSE <<>>)
        \o (IF u.query.t = "str" THEN <<"?">> \o u.query.s ELSE <<>>)

SsDescriptors ==
    [method : {<<"a", "e", "s", "-", "2", "5", "6", "-", "g", "c", "m">>}, password : {<<"p", "a", "s", "s", "w", "o", "r", "d">>, <<"p", ":", "w">>},
     host : {<<"1", ".", "2", ".", "3", ".", "4">>}, port : {<<"8", "3", "8", "8">>, <<"0">>, <<"7", "0", "0", "0", "0">>}]

\* the JSON documents of the vmess descriptors: complete objects, objects
\* with a port that is a string, zero, too large or not a number, objects
\* lacking a required field, and documents that are not objects
VmessDocs ==
    {<<"{", "\"", "a", "d", "d", "\"", ":", "\"", "h", ".", "s", "g", "\"", ",", "\"", "p", "o", "r", "t", "\"", ":", "4", "4", "3", ",", "\"", "i", "d", "\"", ":", "\"", "u", "\"", "}">>,
     <<"{", "\"", "a", "d", "d", "\"", ":", "\"", "h", ".", "s", "g", "\"", ",", "\"", "p", "o", "r", "t", "\"", ":", "\"", "4", "4", "3", "\"", ",", "\"", "i", "d", "\"", ":", "\"", "u", "1", "\"", "}">>,
     <<"{", "\"", "a", "d", "d", "\"", ":", "\"", "h", ".", "s", "g", "\"", ",", "\"", "p", "o", "r", "t", "\"", ":", "4", "4", "3", ",", "\"", "i", "d", "\"", ":", "\"", "u", "\"", ",", "\"", "n", "e", "t", "\"", ":", "\"", "w", "s", "\"", ",", "\"", "p", "a", "t", "h", "\"", ":", "\"", "/", "p", "\"", ",", "\"", "h", "o", "s", "t", "\"", ":", "\"", "c", ".", "s", "g", "\"", ",", "\"", "t", "l", "s", "\"", ":", "\"", "t", "l", "s", "\"", "}">>,
     <<"{", "\"", "a", "d", "d", "\"", ":", "\"", "h", ".", "s", "g", "\"", ",", "\"", "p", "o", "r", "t", "\"", ":", "0", ",", "\"", "i", "d", "\"", ":", "\"", "u", "2", "\"", "}">>,
     <<"{", "\"", "a", "d", "d", "\"", ":", "\"", "h", ".", "s", "g", "\"", ",", "\"", "p", "o", "r", "t", "\"", ":", "7", "0", "0", "0", "0", ",", "\"", "i", "d", "\"", ":", "\"", "u", "\"", "}">>,
     <<"{", "\"", "a", "d", "d", "\"", ":", "\"", "h", ".", "s", "g", "\"", ",", "\"", "p", "o", "r", "t", "\"", ":", "\"", "a", "b", "c", "\"", ",", "\"", "i", "d", "\"", ":", "\"", "u", "\"", "}">>,
     <<"{", "\"", "p", "o", "r", "t", "\"", ":", "4", "4", "3", ",", "\"", "i", "d", "\"", ":", "\"", "u", "\"", "}">>,
     <<"{", "\"", "a", "d", "d", "\"", ":", "\"", "h", ".", "s", "g", "\"", ",", "\"", "i", "d", "\"", ":", "\"", "u", "\"", "}">>,
     <<"{", "\"", "a", "d", "d", "\"", ":", "\"", "h", ".", "s", "g", "\"", ",", "\"", "p", "o", "r", "t", "\"", ":", "4", "4", "3", "}">>,
     <<"{", "\"", "i", "d", "\"", ":", "\"", "u", "\"", "}">>,
     <<"{", "}">>,
     <<"[", "1", "]">>,
     <<"\"", "s", "\"">>,
     <<"7">>}

UrlDescriptors ==
    [scheme : {<<"v", "l", "e", "s", "s">>, <<"t", "r", "o", "j", "a", "n">>},
     user   : {PyStr(<<"u">>)},
     host   : {<<"h", ".", "u", "s">>, <<"[", ":", ":", "1", "]">>},
     port   : {PyNone, PyStr(<<>>), PyStr(<<"8", "4", "4", "3">>), PyStr(<<"0">>), PyStr(<<"7", "0", "0", "0", "0">>)},
     query  : {PyNone}]
    \cup
    [scheme : {<<"v", "l", "e", "s", "s">>, <<"t", "r", "o", "j", "a", "n">>},
     user   : {PyNone, PyStr(<<"u">>)},
     host   : {<<"H", ".", "u", "s">>},
     port   : {PyNone},
     query  : {PyStr(<<"s", "n", "i", "=", "s", ".", "u", "s", "&", "t", "y", "p", "e", "=", "w", "s", "&", "p", "a", "t", "h", "=", "/", "p">>)}]
    \cup
    [scheme : {<<"h", "y", "s", "t", "e", "r", "i", "a", "2">>, <<"h", "y", "2">>},
     user   : {PyNone, PyStr(<<"p", "w">>), PyStr(<<"a", ":", "b">>)},
     host   : {<<"h", ".", "u", "s">>},
     port   : {PyNone, PyStr(<<"8", "4", "4", "3">>), PyStr(<<"0">>)},
     query  : {PyNone, PyStr(<<"p", "a", "s", "s", "w", "o", "r", "d", "=", "q", "&", "s", "n", "i", "=", "s", ".", "u", "s">>)}]

\* lines that are no descriptor at all
MalformedLines == {<<"n", "o", "t", "-", "a", "-", "u", "r", "l">>, <<"v", "m", "e", "s", "s", ":", "/", "/", "n", "o", "t", "-", "b", "a", "s", "e", "6", "4", "!", "!">>, <<"h", "t", "t", "p", ":", "/", "/", "h", ".", "u", "s", ":", "8", "0">>}

(***************************************************************************)
(* State.                                                                  *)
(***************************************************************************)

VARIABLES
    country_filter_env,     \* os.environ.get("IncludedCountry"): a str or None
    protocol_filter_env,    \* os.environ.get("IncludedProtocols"): a str or None
    country_pattern,        \* the compiled country pattern, None before import
    protocol_pattern,       \* the compiled protocol pattern, None before import
    list_file,              \* the lines of the file at list_path
    pc,                     \* the position of the program
    raw_lines,              \* process_configs: the stripped lines
    line_no,                \* process_configs: lines consumed by the parse loop
    parsed_list,            \* process_configs: the records parsed
    address_order,          \* process_configs: their addresses, in order
    unique_addresses,       \* build_tags_for_addresses: addresses, deduplicated
    addr_no,                \* build_tags_for_addresses: addresses tagged so far
    counters,               \* build_tags_for_addresses: per-country counters
    tag_map,                \* build_tags_for_addresses: address -> tag
    cache,                  \* GeoIPResolver._cache
    out_no,                 \* process_configs: records consumed by the build loop
    outbounds,              \* process_configs: the generated outbounds
    valid_tags,             \* process_configs: their tags
    output_file,            \* the configuration written to output_file, or None
    error,                  \* the except clause of process_configs has run
    inputs,                 \* the arguments of the calls of a function, one call each
    rets,                   \* what the calls made so far returned
    outs,                   \* what make_outbound_from_parsed returned for those
    lookups,                \* the DNS and database queries made, in order
    country_counters,       \* main.py: country_counters
    extracted_proxies,      \* main.py: extracted_proxies
    servers_list,           \* main.py: servers_list
    proxy_urls              \* main.py: the lines write_proxy_urls_file wrote

vars ==
    <<country_filter_env, protocol_filter_env, country_pattern, protocol_pattern,
      list_file, pc, raw_lines, line_no, parsed_list, address_order,
      unique_addresses, addr_no, counters, tag_map, cache, out_no, outbounds,
      valid_tags, output_file, error, inputs, rets, outs, lookups,
      country_counters, extracted_proxies, servers_list, proxy_urls>>

envVars == <<country_filter_env, protocol_filter_env, list_file>>
patternVars == <<country_pattern, protocol_pattern>>
parseVars == <<raw_lines, line_no, parsed_list, address_order>>
tagVars == <<unique_addresses, addr_no, counters, tag_map, cache>>
buildVars == <<out_no, outbounds, valid_tags, output_file>>
callVars == <<inputs, rets>>
probeVars == <<outs, lookups>>
mainVars == <<country_counters, extracted_proxies, servers_list, proxy_urls>>

(***************************************************************************)
(* Bounds and input domains.                                               *)
(***************************************************************************)

\* the longest list file
MaxLines == 2

\* the longest address list given to build_tags_for_addresses
MaxAddrs == 4

\* sequences over S of length at most n
SeqUpTo(S, n) == UNION {[1..k -> S] : k \in 0..n}

\* the values of the two filter variables: not set, empty, and allow-lists
CountryEnvs == {PyNone, PyStr(<<>>), PyStr(<<"u", "s">>)}
ProtocolEnvs == {PyNone, PyStr(<<>>), PyStr(<<"s", "s">>)}

\* the shadowsocks line of the end-to-end scenario
ScenarioLine ==
    SsFormANamed([method |-> <<"a", "e", "s", "-", "2", "5", "6", "-", "g", "c", "m">>, password |-> <<"p", "a", "s", "s", "w", "o", "r", "d">>,
                  host |-> <<"1", ".", "2", ".", "3", ".", "4">>, port |-> <<"8", "3", "8", "8">>], <<"t", "e", "s", "t">>)

\* the lines a list file is made of: the scenario line, a vless line with
\* the same address, a vmess line with another address, a vmess line
\* without an address, a vmess line whose document is an array, and a line
\* that is no descriptor
FileLines ==
    {ScenarioLine,
     <<"v", "l", "e", "s", "s", ":", "/", "/", "u", "@", "1", ".", "2", ".", "3", ".", "4", ":", "4", "4", "3">>,
     VmessUrl(<<"{", "\"", "a", "d", "d", "\"", ":", "\"", "h", ".", "s", "g", "\"", ",", "\"", "p", "o", "r", "t", "\"", ":", "4", "4", "3", ",", "\"", "i", "d", "\"", ":", "\"", "u", "\"", "}">>),
     VmessUrl(<<"{", "\"", "i", "d", "\"", ":", "\"", "u", "\"", "}">>),
     VmessUrl(<<"[", "1", "]">>),
     <<"n", "o", "t", "-", "a", "-", "u", "r", "l">>}

\* what the country and ASN databases answer for an address: a lower-case
\* country code or "" and an organization or ""
GeoAnswers ==
    {[country_code |-> <<"u", "s">>, isp |-> <<"A", "c", "m", "e", " ", "C", "l", "o", "u", "d", ",", " ", "I", "n", "c", ".">>],
     [country_code |-> <<"s", "g">>, isp |-> <<"S", "G", "-", "N", "e", "t", " ", "P", "t", "e", " ", "L", "t", "d">>],
     [country_code |-> <<>>,   isp |-> <<>>]}

\* the addresses of the lists given to build_tags_for_addresses
Addresses == {PyStr(<<"1", ".", "2", ".", "3", ".", "4">>), PyStr(<<"h", ".", "s", "g">>), PyStr(<<"t", ".", "u", "s">>)}

\* the calls of parse_any: one line, or two lines that are two forms of the
\* same descriptor
ParseCases ==
    {<<SsFormA(d), SsFormB(d)>> : d \in SsDescriptors}
    \cup {<<SsFormANamed(d, <<"t", "e", "s", "t">>)>> : d \in SsDescriptors}
    \cup {<<VmessUrl(doc), StripPadding(VmessUrl(doc))>> : doc \in VmessDocs}
    \cup {<<Url(u)>> : u \in UrlDescriptors}
    \cup {<<l>> : l \in MalformedLines}

(***************************************************************************)
(* Initial states.                                                         *)
(***************************************************************************)

\* the state of a process in which nothing has run yet
Fresh ==
    /\ country_pattern = PyNone
    /\ protocol_pattern = PyNone
    /\ raw_lines = <<>>
    /\ line_no = 0
    /\ parsed_list = <<>>
    /\ unique_addresses = <<>>
    /\ addr_no = 0
    /\ counters = <<>>
    /\ tag_map = <<>>
    /\ cache = <<>>
    /\ out_no = 0
    /\ outbounds = <<>>
    /\ valid_tags = <<>>
    /\ output_file = PyNone
    /\ error = FALSE
    /\ rets = <<>>
    /\ outs = <<>>
    /\ lookups = <<>>
    /\ country_counters = <<>>
    /\ extracted_proxies = <<>>
    /\ servers_list = <<>>
    /\ proxy_urls = <<>>

\* the script is started: any setting of the two variables, any list file
Init ==
    /\ country_filter_env \in CountryEnvs
    /\ protocol_filter_env \in ProtocolEnvs
    /\ list_file \in SeqUpTo(FileLines, MaxLines)
    /\ pc = "import"
    /\ address_order = <<>>
    /\ inputs = <<>>
    /\ Fresh

\* parse_any is called on the lines of one case
InitParse ==
    /\ country_filter_env = PyStr(<<>>)
    /\ protocol_filter_env = PyStr(<<>>)
    /\ list_file = <<>>
    /\ pc = "parse_any"
    /\ address_order = <<>>
    /\ inputs \in ParseCases
    /\ Fresh

\* build_tags_for_addresses is called on a list of addresses
InitTags ==
    /\ country_filter_env = PyStr(<<>>)
    /\ protocol_filter_env = PyStr(<<>>)
    /\ list_file = <<>>
    /\ pc = "tags"
    /\ address_order \in SeqUpTo(Addresses, MaxAddrs)
    /\ inputs = <<>>
    /\ Fresh

(***************************************************************************)
(* Actions.                                                                *)
(***************************************************************************)

\* Lines 18-29, run when the module is loaded: both patterns are compiled
\* from the environment; a variable that is not set raises AttributeError
\* and the script ends there.
ImportModule ==
    /\ pc = "import"
    /\ LET cp == CompileFilter(country_filter_env)
           pp == CompileFilter(protocol_filter_env)
       IN  IF IsExc(cp) \/ IsExc(pp)
           THEN /\ pc' = "import_error"
                /\ UNCHANGED patternVars
           ELSE /\ pc' = "main"
                /\ country_pattern' = cp
                /\ protocol_pattern' = pp
    /\ UNCHANGED <<envVars, probeVars, mainVars, parseVars, tagVars, buildVars, error, callVars>>

\* Lines 319-323: process_configs reads and strips the lines.
ReadLines ==
    /\ pc = "main"
    /\ raw_lines' = [k \in 1..Len(list_file) |-> Strip(list_file[k])]
    /\ line_no' = 0
    /\ parsed_list' = <<>>
    /\ address_order' = <<>>
    /\ pc' = "parse"
    /\ UNCHANGED <<envVars, probeVars, mainVars, patternVars, tagVars, buildVars, error, callVars>>

\* Lines 326-335, one iteration of the parse loop.  An exception of
\* parse_any is caught by the except clause of process_configs (lines
\* 470-471), which ends the batch.
ParseLine ==
    /\ pc = "parse"
    /\ line_no < Len(raw_lines)
    /\ LET raw    == raw_lines[line_no + 1]
           parsed == parse_any(raw)
       IN  IF raw = <<>> \/ StartsWith(raw, <<"/", "/">>)
           THEN /\ line_no' = line_no + 1
                /\ UNCHANGED <<pc, parsed_list, address_order, error>>
           ELSE IF IsExc(parsed)
           THEN /\ pc' = "done"
                /\ error' = TRUE
                /\ UNCHANGED <<line_no, parsed_list, address_order>>
           ELSE IF ~IsRecord(parsed)
           THEN /\ line_no' = line_no + 1
                /\ UNCHANGED <<pc, parsed_list, address_order, error>>
           ELSE /\ line_no' = line_no + 1
                /\ parsed_list' = Append(parsed_list, parsed)
                /\ address_order' = IF Truthy(parsed.address)
                                    THEN Append(address_order, parsed.address)
                                    ELSE address_order
                /\ UNCHANGED <<pc, error>>
    /\ UNCHANGED <<envVars, probeVars, mainVars, patternVars, raw_lines, tagVars, buildVars, callVars>>

\* Lines 337-342, after the parse loop: return when nothing was parsed,
\* otherwise call build_tags_for_addresses.
CheckParsed ==
    /\ pc = "parse"
    /\ line_no = Len(raw_lines)
    /\ pc' = IF parsed_list = <<>> THEN "done" ELSE "tags"
    /\ UNCHANGED <<envVars, probeVars, mainVars, patternVars, parseVars, tagVars, buildVars, error, callVars>>

\* the list as it is: a tagging loop that visits the repeated addresses too
DedupKeepsRepeats(addresses) == addresses

\* the elements of a list in first-appearance order, each once
Dedup(addresses) ==
    LET first == {i \in 1..Len(addresses) :
                     \A j \in 1..(i - 1) : addresses[j] # addresses[i]}
        nth(k) == CHOOSE i \in first : Cardinality({j \in first : j <= i}) = k
    IN  [k \in 1..Cardinality(first) |-> addresses[nth(k)]]

\* Lines 228-237: build_tags_for_addresses starts with empty maps and
\* removes the repeated addresses.
TagsBegin ==
    /\ pc = "tags"
    /\ IF \E k \in 1..Len(address_order) : Unhashable(address_order[k])
       THEN /\ pc' = "done"
            /\ error' = TRUE
            /\ UNCHANGED <<unique_addresses, addr_no, counters, tag_map>>
       ELSE /\ pc' = "resolve"
            /\ unique_addresses' = Dedup(address_order)
            /\ addr_no' = 0
            /\ counters' = <<>>
            /\ tag_map' = <<>>
            /\ UNCHANGED error
    /\ UNCHANGED <<envVars, probeVars, mainVars, patternVars, parseVars, cache, buildVars, callVars>>

\* a tag that leaves the index of the address out of account
TagTextWithoutIndex(cc, index, isp_clean) ==
    cc \o <<" ">> \o IntToText(1) \o <<" ", "-", " ">> \o isp_clean

\* a tag whose index counts from zero
TagTextFromZero(cc, index, isp_clean) ==
    cc \o <<" ">> \o IntToText(index - 1) \o <<" ", "-", " ">> \o isp_clean

\* the tag f"{cc} {index} - {isp_clean}"
TagText(cc, index, isp_clean) ==
    cc \o <<" ">> \o IntToText(index) \o <<" ", "-", " ">> \o isp_clean

\* Lines 239-245, one iteration of the tagging loop, with the call of
\* get_country_and_isp (lines 39-74): a cached answer is returned as it is,
\* otherwise the databases are asked and the answer is cached.
TagsResolve ==
    /\ pc = "resolve"
    /\ addr_no < Len(unique_addresses)
    /\ addr_no' = addr_no + 1
    /\ \E answer \in GeoAnswers :
          LET addr   == unique_addresses[addr_no + 1]
              result == IF addr \in DOMAIN cache THEN cache[addr] ELSE answer
              cc     == IF result.country_code # <<>>
                        THEN ToUpper(result.country_code)
                        ELSE <<"U", "N", "K">>
              index  == (IF cc \in DOMAIN counters THEN counters[cc] ELSE 0) + 1
          IN  /\ cache' = Put(cache, addr, result)
              /\ counters' = Put(counters, cc, index)
              /\ tag_map' = Put(tag_map, addr,
                                TagText(cc, index, clean_isp_name(result.isp)))
    /\ UNCHANGED <<envVars, probeVars, mainVars, patternVars, parseVars, unique_addresses, pc,
                   buildVars, error, callVars>>

\* Line 247 and lines 345-346: the tag map is returned and the build loop
\* starts with no outbound.
TagsReturn ==
    /\ pc = "resolve"
    /\ addr_no = Len(unique_addresses)
    /\ pc' = "build"
    /\ out_no' = 0
    /\ outbounds' = <<>>
    /\ valid_tags' = <<>>
    /\ UNCHANGED <<envVars, probeVars, mainVars, patternVars, parseVars, tagVars, output_file, error,
                   callVars>>

\* tag_map.get(addr, '').split(' ')[0]
TagPrefix(map, addr) ==
    IF addr \in DOMAIN map THEN Split(map[addr], <<" ">>)[1] ELSE <<>>

\* Lines 347-363, one iteration of the build loop: the protocol filter, the
\* country filter on the first word of the tag, then the outbound.
BuildOutbound ==
    /\ pc = "build"
    /\ out_no < Len(parsed_list)
    /\ LET p     == parsed_list[out_no + 1]
           proto == p.proto.s
           addr  == p.address
           out   == make_outbound_from_parsed(p, tag_map)
       IN  IF Unhashable(addr)
           THEN /\ pc' = "done"
                /\ error' = TRUE
                /\ UNCHANGED <<out_no, outbounds, valid_tags>>
           ELSE IF ~PatternSearch(protocol_pattern.items, proto)
           THEN /\ out_no' = out_no + 1
                /\ UNCHANGED <<pc, error, outbounds, valid_tags>>
           ELSE IF ~PatternSearch(country_pattern.items, TagPrefix(tag_map, addr))
           THEN /\ out_no' = out_no + 1
                /\ UNCHANGED <<pc, error, outbounds, valid_tags>>
           ELSE /\ out_no' = out_no + 1
                /\ outbounds' = IF out # PyNone THEN Append(outbounds, out)
                                ELSE outbounds
                /\ valid_tags' = IF out # PyNone THEN Append(valid_tags, out.tag)
                                 ELSE valid_tags
                /\ UNCHANGED <<pc, error>>
    /\ UNCHANGED <<envVars, probeVars, mainVars, patternVars, parseVars, tagVars, output_file, callVars>>

\* the static outbounds with a MIXED selector that lacks the first tag
StaticOutboundsFirstUnselectable(tags) ==
    LET route == <<PyStr(<<"R", "E", "J", "E", "C", "T">>), PyStr(<<"D", "I", "R", "E", "C", "T">>), PyStr(<<"M", "I", "X", "E", "D">>)>>
    IN  <<[type |-> PyStr(<<"b", "l", "o", "c", "k">>), tag |-> PyStr(<<"R", "E", "J", "E", "C", "T">>)],
          [type |-> PyStr(<<"d", "i", "r", "e", "c", "t">>), tag |-> PyStr(<<"D", "I", "R", "E", "C", "T">>)],
          [type |-> PyStr(<<"s", "e", "l", "e", "c", "t", "o", "r">>), tag |-> PyStr(<<"R", "O", "U", "T", "E", "-", "I", "D">>),
           outbounds |-> route, default |-> PyStr(<<"D", "I", "R", "E", "C", "T">>)],
          [type |-> PyStr(<<"s", "e", "l", "e", "c", "t", "o", "r">>), tag |-> PyStr(<<"R", "O", "U", "T", "E", "-", "S", "G">>),
           outbounds |-> route, default |-> PyStr(<<"D", "I", "R", "E", "C", "T">>)],
          [type |-> PyStr(<<"s", "e", "l", "e", "c", "t", "o", "r">>), tag |-> PyStr(<<"M", "I", "X", "E", "D">>),
           outbounds |-> SubSeq(tags, 2, Len(tags))],
          [type |-> PyStr(<<"s", "e", "l", "e", "c", "t", "o", "r">>), tag |-> PyStr(<<"R", "O", "U", "T", "E", "-", "A", "D", "S">>),
           outbounds |-> route, default |-> PyStr(<<"R", "E", "J", "E", "C", "T">>)]>>

\* the outbounds that every configuration starts with (lines 401-408)
StaticOutbounds(tags) ==
    LET route == <<PyStr(<<"R", "E", "J", "E", "C", "T">>), PyStr(<<"D", "I", "R", "E", "C", "T">>), PyStr(<<"M", "I", "X", "E", "D">>)>>
    IN  <<[type |-> PyStr(<<"b", "l", "o", "c", "k">>), tag |-> PyStr(<<"R", "E", "J", "E", "C", "T">>)],
          [type |-> PyStr(<<"d", "i", "r", "e", "c", "t">>), tag |-> PyStr(<<"D", "I", "R", "E", "C", "T">>)],
          [type |-> PyStr(<<"s", "e", "l", "e", "c", "t", "o", "r">>), tag |-> PyStr(<<"R", "O", "U", "T", "E", "-", "I", "D">>),
           outbounds |-> route, default |-> PyStr(<<"D", "I", "R", "E", "C", "T">>)],
          [type |-> PyStr(<<"s", "e", "l", "e", "c", "t", "o", "r">>), tag |-> PyStr(<<"R", "O", "U", "T", "E", "-", "S", "G">>),
           outbounds |-> route, default |-> PyStr(<<"D", "I", "R", "E", "C", "T">>)],
          [type |-> PyStr(<<"s", "e", "l", "e", "c", "t", "o", "r">>), tag |-> PyStr(<<"M", "I", "X", "E", "D">>), outbounds |-> tags],
          [type |-> PyStr(<<"s", "e", "l", "e", "c", "t", "o", "r">>), tag |-> PyStr(<<"R", "O", "U", "T", "E", "-", "A", "D", "S">>),
           outbounds |-> route, default |-> PyStr(<<"R", "E", "J", "E", "C", "T">>)]>>

\* an end of process_configs that writes the configuration whether or not
\* an outbound was generated
FinishAlwaysWrites ==
    /\ pc = "build"
    /\ out_no = Len(parsed_list)
    /\ pc' = "done"
    /\ output_file' = [outbounds |-> StaticOutbounds(valid_tags) \o outbounds]
    /\ UNCHANGED <<envVars, probeVars, mainVars, patternVars, parseVars, tagVars, out_no, outbounds,
                   valid_tags, error, callVars>>

\* Lines 365-468, after the build loop: return when no outbound was built,
\* otherwise assemble the configuration and write it.  Only the outbound
\* array depends on the input; the other sections are constants.
Finish ==
    /\ pc = "build"
    /\ out_no = Len(parsed_list)
    /\ pc' = "done"
    /\ output_file' = IF outbounds = <<>> THEN output_file
                      ELSE [outbounds |-> StaticOutbounds(valid_tags) \o outbounds]
    /\ UNCHANGED <<envVars, probeVars, mainVars, patternVars, parseVars, tagVars, out_no, outbounds,
                   valid_tags, error, callVars>>

\* parse_any (lines 189-220) is called on the next line of the case.
CallParseAny ==
    /\ pc = "parse_any"
    /\ Len(rets) < Len(inputs)
    /\ rets' = Append(rets, parse_any(inputs[Len(rets) + 1]))
    /\ UNCHANGED <<envVars, probeVars, mainVars, patternVars, pc, parseVars, tagVars, buildVars, error,
                   inputs>>

(***************************************************************************)
(* Specifications.                                                         *)
(***************************************************************************)

Next ==
    \/ ImportModule
    \/ ReadLines
    \/ ParseLine
    \/ CheckParsed
    \/ TagsBegin
    \/ TagsResolve
    \/ TagsReturn
    \/ BuildOutbound
    \/ Finish

\* the script, from its start to the end of process_configs
Spec == Init /\ [][Next]_vars

NextParse == CallParseAny

\* parse_any applied to descriptors
SpecParse == InitParse /\ [][NextParse]_vars

NextTags == TagsBegin \/ TagsResolve \/ TagsReturn

\* build_tags_for_addresses applied to address lists
SpecTags == InitTags /\ [][NextTags]_vars


(***************************************************************************)
(* main.py: write_proxy_urls_file (lines 331-487).  A proxy is a dict in   *)
(* the Clash format.  The proxies of the model are of the types vmess and  *)
(* ss and of a type the function does not support; the branches for vless, *)
(* hysteria, hysteria2 and tuic are entered by none of them.  Every proxy  *)
(* of the model has a name, which the except clause reads.                 *)
(***************************************************************************)

\* "sep".join(parts)
RECURSIVE Join(_, _)
Join(parts0, sep) ==
    Let(parts0, LAMBDA parts :
        IF parts = <<>> THEN <<>>
        ELSE IF Len(parts) = 1 THEN parts[1]
        ELSE parts[1] \o sep \o Join(Tail(parts), sep))

\* v[key]: KeyError (Exc) for a key that is absent, TypeError (Exc) for a
\* value that has no keys
Index(v, key) ==
    IF v.t # "dict" THEN Exc
    ELSE IF key \in DOMAIN v.m THEN v.m[key] ELSE Exc

\* str(n) for any integer
SignedText(n) == IF n < 0 THEN <<"-">> \o IntToText(0 - n) ELSE IntToText(n)

\* the JSON text of the characters of a str: the quote and the backslash are
\* escaped
JsonEscape(s0) ==
    Let(s0, LAMBDA s :
        Join([k \in 1..Len(s) |->
                 IF s[k] \in {"\"", "\\"} THEN <<"\\", s[k]>> ELSE <<s[k]>>], <<>>))

\* json.dumps(v) for a str, an int, a bool, None or a list of those
RECURSIVE JsonText(_)
JsonText(v) ==
    CASE v.t = "str"  -> <<"\"">> \o JsonEscape(v.s) \o <<"\"">>
      [] v.t = "int"  -> SignedText(v.n)
      [] v.t = "bool" -> IF v.b THEN <<"t", "r", "u", "e">> ELSE <<"f", "a", "l", "s", "e">>
      [] v.t = "None" -> <<"n", "u", "l", "l">>
      [] v.t = "list" ->
            <<"[">> \o Join([k \in 1..Len(v.items) |-> JsonText(v.items[k])], <<",", " ">>)
                \o <<"]">>

\* json.dumps of a dict given as its (key, value) pairs in insertion order
JsonDumps(pairs) ==
    <<"{">>
        \o Join([k \in 1..Len(pairs) |->
                    <<"\"">> \o pairs[k][1] \o <<"\"", ":", " ">> \o JsonText(pairs[k][2])], <<",", " ">>)
        \o <<"}">>

\* proxy.get(opts, {}).get(key, default)
OptsGet(proxy, opts, key, default) ==
    DictGet(DictGet(proxy, opts, PyDict(<<>>)), key, default)

\* the host of a ws proxy (lines 382-385): headers.get('host', "") and, when
\* that raises, headers.get('Host', "")
WsHeaderHost(proxy) ==
    Let(OptsGet(proxy, <<"w", "s", "-", "o", "p", "t", "s">>, <<"h", "e", "a", "d", "e", "r", "s">>, PyDict(<<>>)), LAMBDA headers :
    Let(DictGet(headers, <<"h", "o", "s", "t">>, PyStr(<<>>)), LAMBDA host :
        IF IsExc(host) THEN DictGet(headers, <<"H", "o", "s", "t">>, PyStr(<<>>)) ELSE host))

\* ','.join(host): TypeError (Exc) unless host is a str or a list of str
JoinHosts(host) ==
    IF host.t = "list" /\ \A k \in 1..Len(host.items) : host.items[k].t = "str"
    THEN PyStr(Join([k \in 1..Len(host.items) |-> host.items[k].s], <<",">>))
    ELSE IF host.t = "str"
    THEN PyStr(Join([k \in 1..Len(host.s) |-> <<host.s[k]>>], <<",">>))
    ELSE Exc

\* lines 375-397: the type, path and host of the vmess link by network;
\* None for a network that is skipped
VmessLinkParts(proxy, network) ==
    IF network = PyStr(<<"t", "c", "p">>)
    THEN [type |-> PyStr(<<"n", "o", "n", "e">>), path |-> PyStr(<<>>), host |-> PyStr(<<>>)]
    ELSE IF network = PyStr(<<"w", "s">>)
    THEN [type |-> PyStr(<<"n", "o", "n", "e">>),
          path |-> OptsGet(proxy, <<"w", "s", "-", "o", "p", "t", "s">>, <<"p", "a", "t", "h">>, PyStr(<<>>)),
          host |-> WsHeaderHost(proxy)]
    ELSE IF network = PyStr(<<"g", "r", "p", "c">>)
    THEN [type |-> PyStr(<<"g", "u", "n">>),
          path |-> OptsGet(proxy, <<"g", "r", "p", "c", "-", "o", "p", "t", "s">>, <<"g", "r", "p", "c", "-", "s", "e", "r", "v", "i", "c", "e", "-", "n", "a", "m", "e">>, PyStr(<<>>)),
          host |-> PyStr(<<>>)]
    ELSE IF network = PyStr(<<"h", "2">>)
    THEN [type |-> PyStr(<<"n", "o", "n", "e">>),
          path |-> OptsGet(proxy, <<"h", "2", "-", "o", "p", "t", "s">>, <<"p", "a", "t", "h">>, PyStr(<<>>)),
          host |-> JoinHosts(OptsGet(proxy, <<"h", "2", "-", "o", "p", "t", "s">>, <<"h", "o", "s", "t">>, PyList(<<>>)))]
    ELSE PyNone

\* "tls" if int(proxy.get('tls', 0)) == 1 else ""
VmessLinkTls(proxy) ==
    Let(IntOf(DictGet(proxy, <<"t", "l", "s">>, PyInt(0))), LAMBDA tls :
        IF IsExc(tls) THEN Exc
        ELSE IF tls.n = 1 THEN PyStr(<<"t", "l", "s">>) ELSE PyStr(<<>>))

\* lines 363-415: the vmess link of a proxy, None when its network is
\* skipped, Exc when an exception is raised
VmessLink(proxy) ==
    Let(<<Index(proxy, <<"n", "a", "m", "e">>), Index(proxy, <<"s", "e", "r", "v", "e", "r">>), Index(proxy, <<"p", "o", "r", "t">>),
          Index(proxy, <<"u", "u", "i", "d">>), Index(proxy, <<"a", "l", "t", "e", "r", "I", "d">>), VmessLinkTls(proxy),
          DictGet(proxy, <<"s", "e", "r", "v", "e", "r", "n", "a", "m", "e">>, PyStr(<<>>)), Index(proxy, <<"n", "e", "t", "w", "o", "r", "k">>)>>,
        LAMBDA f :
        IF \E k \in 1..Len(f) : IsExc(f[k]) THEN Exc
        ELSE Let(VmessLinkParts(proxy, f[8]), LAMBDA parts :
             IF parts = PyNone THEN PyNone
             ELSE IF IsExc(parts.path) \/ IsExc(parts.host) THEN Exc
             ELSE PyStr(<<"v", "m", "e", "s", "s", ":", "/", "/">> \o B64Encode(JsonDumps(
                      <<<<<<"v">>, PyStr(<<"2">>)>>, <<<<"p", "s">>, f[1]>>, <<<<"a", "d", "d">>, f[2]>>,
                        <<<<"p", "o", "r", "t">>, f[3]>>, <<<<"i", "d">>, f[4]>>, <<<<"a", "i", "d">>, f[5]>>,
                        <<<<"n", "e", "t">>, f[8]>>, <<<<"t", "y", "p", "e">>, parts.type>>,
                        <<<<"h", "o", "s", "t">>, parts.host>>, <<<<"p", "a", "t", "h">>, parts.path>>,
                        <<<<"t", "l", "s">>, f[6]>>, <<<<"s", "n", "i">>, f[7]>>,
                        <<<<"a", "l", "p", "n">>, PyStr(<<>>)>>>>)))))

\* lines 417-425: the five fields are read, then base64.b64encode is given a
\* str and raises TypeError; every path ends in the except clause
SsLink(proxy) == Exc

\* the link of one proxy (lines 334-483): a str, None when the proxy is
\* skipped by continue, Exc when the except clause skips it
ProxyUrl(proxy) ==
    Let(Index(proxy, <<"t", "y", "p", "e">>), LAMBDA type :
        IF IsExc(type) THEN Exc
        ELSE IF type = PyStr(<<"v", "m", "e", "s", "s">>) THEN VmessLink(proxy)
        ELSE IF type = PyStr(<<"s", "s">>) THEN SsLink(proxy)
        ELSE PyNone)

\* the lines write_proxy_urls_file writes for a list of proxies
RECURSIVE ProxyUrls(_)
ProxyUrls(proxies0) ==
    Let(proxies0, LAMBDA proxies :
        IF proxies = <<>> THEN <<>>
        ELSE Let(ProxyUrl(proxies[1]), LAMBDA url :
                 (IF url.t = "str" THEN <<url.s>> ELSE <<>>) \o ProxyUrls(Tail(proxies))))

(***************************************************************************)
(* The round trip of a vmess proxy: write_proxy_urls_file writes the link  *)
(* of a proxy that has the shape process_xray gives it (main.py lines      *)
(* 214-236), and parse_any reads the link back.                            *)
(***************************************************************************)

\* the vmess proxy of process_xray (main.py lines 214-236) with the name
\* US-01, the server h.us and the uuid u; the service name of grpc is kept
\* under grpc_key
XrayVmessProxy(network, tls, port, ws_headers, grpc_key) ==
    PyDict((<<"n", "a", "m", "e">> :> PyStr(<<"U", "S", "-", "0", "1">>)) @@ (<<"t", "y", "p", "e">> :> PyStr(<<"v", "m", "e", "s", "s">>))
        @@ (<<"s", "e", "r", "v", "e", "r">> :> PyStr(<<"h", ".", "u", "s">>)) @@ (<<"p", "o", "r", "t">> :> PyInt(port))
        @@ (<<"u", "u", "i", "d">> :> PyStr(<<"u">>)) @@ (<<"a", "l", "t", "e", "r", "I", "d">> :> PyInt(0))
        @@ (<<"c", "i", "p", "h", "e", "r">> :> PyStr(<<"a", "u", "t", "o">>)) @@ (<<"t", "l", "s">> :> PyBool(tls))
        @@ (<<"s", "e", "r", "v", "e", "r", "n", "a", "m", "e">> :> PyStr(<<>>)) @@ (<<"s", "k", "i", "p", "-", "c", "e", "r", "t", "-", "v", "e", "r", "i", "f", "y">> :> PyBool(FALSE))
        @@ (<<"n", "e", "t", "w", "o", "r", "k">> :> PyStr(network))
        @@ (<<"w", "s", "-", "o", "p", "t", "s">> :> PyDict((<<"p", "a", "t", "h">> :> PyStr(<<"/", "w">>)) @@ (<<"h", "e", "a", "d", "e", "r", "s">> :> ws_headers)))
        @@ (<<"g", "r", "p", "c", "-", "o", "p", "t", "s">> :> PyDict(grpc_key :> PyStr(<<"s", "v", "c">>)))
        @@ (<<"h", "2", "-", "o", "p", "t", "s">> :> PyDict((<<"p", "a", "t", "h">> :> PyStr(<<"/", "h">>))
                                    @@ (<<"h", "o", "s", "t">> :> PyList(<<PyStr(<<"c", ".", "s", "g">>)>>)))))

\* the networks process_xray keeps for vmess (main.py line 207)
VmessNetworks == {<<"t", "c", "p">>, <<"w", "s">>, <<"g", "r", "p", "c">>, <<"h", "2">>}

\* vmess proxies: each network, with and without TLS, two ports, the host
\* header of ws under host and under Host, the service name of grpc under
\* the key of process_xray and under the key of Clash
VmessProxies ==
    {XrayVmessProxy(network, tls, port, PyDict(header :> PyStr(<<"c", ".", "s", "g">>)), grpc_key) :
        network \in VmessNetworks, tls \in BOOLEAN, port \in {443, 8080},
        header \in {<<"h", "o", "s", "t">>, <<"H", "o", "s", "t">>},
        grpc_key \in {<<"s", "e", "r", "v", "i", "c", "e", "N", "a", "m", "e">>, <<"g", "r", "p", "c", "-", "s", "e", "r", "v", "i", "c", "e", "-", "n", "a", "m", "e">>}}

\* proxies that get no link: a network that is skipped, a type that is not
\* supported, an ss proxy
SkippedProxies ==
    {XrayVmessProxy(<<"q", "u", "i", "c">>, FALSE, 443, PyDict(<<>>), <<"s", "e", "r", "v", "i", "c", "e", "N", "a", "m", "e">>),
     PyDict((<<"n", "a", "m", "e">> :> PyStr(<<"U", "S", "-", "0", "2">>)) @@ (<<"t", "y", "p", "e">> :> PyStr(<<"h", "t", "t", "p">>))),
     PyDict((<<"n", "a", "m", "e">> :> PyStr(<<"U", "S", "-", "0", "3">>)) @@ (<<"t", "y", "p", "e">> :> PyStr(<<"s", "s">>))
        @@ (<<"s", "e", "r", "v", "e", "r">> :> PyStr(<<"h", ".", "u", "s">>)) @@ (<<"p", "o", "r", "t">> :> PyInt(8388))
        @@ (<<"p", "a", "s", "s", "w", "o", "r", "d">> :> PyStr(<<"p", "w">>)) @@ (<<"c", "i", "p", "h", "e", "r">> :> PyStr(<<"a", "e", "s", "-", "2", "5", "6", "-", "g", "c", "m">>)))}

\* the arguments of write_proxy_urls_file: a list of one proxy
InitRoundTrip ==
    /\ country_filter_env = PyStr(<<>>)
    /\ protocol_filter_env = PyStr(<<>>)
    /\ list_file = <<>>
    /\ pc = "write_urls"
    /\ address_order = <<>>
    /\ inputs \in {<<proxy>> : proxy \in VmessProxies \cup SkippedProxies}
    /\ Fresh

\* write_proxy_urls_file(output_file, proxies), main.py lines 331-487
WriteProxyUrlsFile ==
    /\ pc = "write_urls"
    /\ proxy_urls' = ProxyUrls(inputs)
    /\ pc' = "reparse"
    /\ UNCHANGED <<envVars, probeVars, patternVars, parseVars, tagVars, buildVars, error,
                   callVars, country_counters, extracted_proxies, servers_list>>

\* parse_any on the next line of the file that was written
ParseWrittenUrl ==
    /\ pc = "reparse"
    /\ Len(rets) < Len(proxy_urls)
    /\ rets' = Append(rets, parse_any(proxy_urls[Len(rets) + 1]))
    /\ UNCHANGED <<envVars, probeVars, mainVars, patternVars, pc, parseVars, tagVars,
                   buildVars, error, inputs>>

NextRoundTrip == WriteProxyUrlsFile \/ ParseWrittenUrl

\* the round trip of one proxy
SpecRoundTrip == InitRoundTrip /\ [][NextRoundTrip]_vars

(***************************************************************************)
(* Calls of clean_isp_name (lines 87-101) on ISP names made of words.      *)
(***************************************************************************)

\* the largest number of words of an ISP name
MaxWords == 3

\* words of ISP names: the text of the word, the text without its periods
\* and commas, and whether that is a stopword in some case
IspWords ==
    {[text |-> <<"A", "c", "m", "e">>,     bare |-> <<"A", "c", "m", "e">>,    stop |-> FALSE],
     [text |-> <<"C", "l", "o", "u", "d", ",">>,   bare |-> <<"C", "l", "o", "u", "d">>,   stop |-> TRUE],
     [text |-> <<"I", "n", "c", ".">>,     bare |-> <<"I", "n", "c">>,     stop |-> TRUE],
     [text |-> <<"T", "e", "l", "e", ".", "c", "o", "m">>, bare |-> <<"T", "e", "l", "e", "c", "o", "m">>, stop |-> FALSE],
     [text |-> <<"S", ".", "A", ".", "S">>,    bare |-> <<"S", "A", "S">>,     stop |-> TRUE],
     [text |-> <<"p", "t", "e">>,      bare |-> <<"p", "t", "e">>,     stop |-> TRUE]}

\* what stands between two words: whitespace, a hyphen, a hyphen in spaces
IspSeparators == {<<" ">>, <<"-">>, <<" ", "-", " ">>}

\* ISP names: up to MaxWords words and the separators between them
IspNames ==
    UNION {[words : [1..n -> IspWords], seps : [1..(n - 1) -> IspSeparators]] :
              n \in 0..MaxWords}

\* the text of an ISP name
IspText(name) ==
    Join([k \in 1..Len(name.words) |->
             name.words[k].text \o (IF k < Len(name.words) THEN name.seps[k] ELSE <<>>)],
         <<>>)

\* clean_isp_name is called on the text of an ISP name
InitClean ==
    /\ country_filter_env = PyStr(<<>>)
    /\ protocol_filter_env = PyStr(<<>>)
    /\ list_file = <<>>
    /\ pc = "clean_isp_name"
    /\ address_order = <<>>
    /\ inputs \in {<<name>> : name \in IspNames}
    /\ Fresh

\* clean_isp_name(isp)
CallCleanIspName ==
    /\ pc = "clean_isp_name"
    /\ Len(rets) < Len(inputs)
    /\ rets' = Append(rets, PyStr(clean_isp_name(IspText(inputs[Len(rets) + 1]))))
    /\ UNCHANGED <<envVars, probeVars, mainVars, patternVars, pc, parseVars, tagVars,
                   buildVars, error, inputs>>

NextClean == CallCleanIspName

\* calls of clean_isp_name
SpecClean == InitClean /\ [][NextClean]_vars

(***************************************************************************)
(* GeoIPResolver.get_country_and_isp (lines 39-74), called any number of   *)
(* times on one resolver.  What DNS and the two databases answer is chosen *)
(* anew at every query.  The hosts of the model are names and IPv4         *)
(* addresses.                                                              *)
(***************************************************************************)

\* the largest number of calls on one resolver
MaxCalls == 3

\* the greatest value of a part of an IPv4 address
MaxOctet == 255

\* a part of an IPv4 address: one to three digits, no leading zero, at most
\* MaxOctet
IsOctet(part) ==
    /\ Len(part) \in 1..3
    /\ \A k \in 1..Len(part) : IsDigit(part[k])
    /\ Len(part) > 1 => part[1] # "0"
    /\ DigitsValue(part) <= MaxOctet

\* ipaddress.ip_address(host) does not raise ValueError (line 51)
IsIpAddress(host) ==
    Let(Split(host, <<".">>), LAMBDA parts :
        Len(parts) = 4 /\ \A k \in 1..4 : IsOctet(parts[k]))

\* the arguments of the calls
Hosts == {PyStr(<<"1", ".", "2", ".", "3", ".", "4">>), PyStr(<<"h", ".", "u", "s">>), PyStr(<<"2", "5", "6", ".", "1", ".", "1", ".", "1">>)}

\* what socket.gethostbyname can do for a name (line 55): return an address
\* or raise; it is not called for an address
DnsAnswers(host) ==
    IF IsIpAddress(host.s) THEN {PyNone} ELSE {PyStr(<<"5", ".", "6", ".", "7", ".", "8">>), Exc}

\* lines 48-57: the ip that is looked up
LookupIp(host, dns) ==
    IF IsIpAddress(host.s) THEN host
    ELSE IF IsExc(dns) THEN host
    ELSE dns

\* what a database reader can do for ip: return one of the values, return
\* None for the field, or raise (it always raises for a text that is no
\* address)
ReaderAnswers(ip, values) ==
    IF IsIpAddress(ip.s) THEN values \cup {PyNone, Exc} ELSE {Exc}

\* lines 60-64: (country_response.country.iso_code or "").lower(), "" when
\* the reader raised
CountryCode(answer) ==
    IF IsExc(answer) THEN <<>>
    ELSE ToLower(PyOr(answer, PyStr(<<>>)).s)

\* lines 66-70: asn_response.autonomous_system_organization or "", "" when
\* the reader raised
OrganizationName(answer) ==
    IF IsExc(answer) THEN <<>>
    ELSE PyOr(answer, PyStr(<<>>)).s

\* line 45: host_or_ip in self._cache
InCacheNever(host) == FALSE

InCache(host) == host \in DOMAIN cache

\* a resolver is made and called on a sequence of hosts
InitResolver ==
    /\ country_filter_env = PyStr(<<>>)
    /\ protocol_filter_env = PyStr(<<>>)
    /\ list_file = <<>>
    /\ pc = "resolver"
    /\ address_order = <<>>
    /\ inputs \in SeqUpTo(Hosts, MaxCalls) \ {<<>>}
    /\ Fresh

\* get_country_and_isp(host_or_ip) on the next host
GetCountryAndIsp ==
    /\ pc = "resolver"
    /\ Len(rets) < Len(inputs)
    /\ LET host == inputs[Len(rets) + 1]
       IN  IF InCache(host)
           THEN /\ rets' = Append(rets, cache[host])
                /\ UNCHANGED <<cache, lookups>>
           ELSE \E dns \in DnsAnswers(host) :
                \E country \in ReaderAnswers(LookupIp(host, dns), {PyStr(<<"U", "S">>)}) :
                \E asn \in ReaderAnswers(LookupIp(host, dns), {PyStr(<<"A", "c", "m", "e", " ", "I", "n", "c", ".">>)}) :
                    LET result == [country_code |-> CountryCode(country),
                                   isp |-> OrganizationName(asn)]
                    IN  /\ cache' = Put(cache, host, result)
                        /\ rets' = Append(rets, result)
                        /\ lookups' = Append(lookups,
                                             [host |-> host, dns |-> dns,
                                              country |-> country, asn |-> asn])
    /\ UNCHANGED <<envVars, outs, mainVars, patternVars, pc, parseVars, unique_addresses,
                   addr_no, counters, tag_map, buildVars, error, inputs>>

NextResolver == GetCountryAndIsp

\* calls of get_country_and_isp on one resolver
SpecResolver == InitResolver /\ [][NextResolver]_vars

(***************************************************************************)
(* Calls of make_outbound_from_parsed (lines 250-314) on the records that  *)
(* parse_any returns for descriptor lines, with an empty tag map.          *)
(***************************************************************************)

\* vmess descriptors whose address is a JSON array and a JSON number
OddAddressLines ==
    {VmessUrl(<<"{", "\"", "a", "d", "d", "\"", ":", " ", "[", "\"", "h", ".", "s", "g", "\"", "]", ",", " ", "\"", "p", "o", "r", "t", "\"", ":", " ", "4", "4", "3", ",", " ", "\"", "i", "d", "\"", ":", " ", "\"", "u", "\"", "}">>),
     VmessUrl(<<"{", "\"", "a", "d", "d", "\"", ":", " ", "5", ",", " ", "\"", "p", "o", "r", "t", "\"", ":", " ", "4", "4", "3", ",", " ", "\"", "i", "d", "\"", ":", " ", "\"", "u", "\"", "}">>)}

\* the descriptor lines whose records are given to make_outbound_from_parsed
OutboundLines ==
    UNION {{case[k] : k \in 1..Len(case)} : case \in ParseCases} \cup OddAddressLines

\* a descriptor line is parsed and its record is made an outbound
InitOutbound ==
    /\ country_filter_env = PyStr(<<>>)
    /\ protocol_filter_env = PyStr(<<>>)
    /\ list_file = <<>>
    /\ pc = "make_outbound"
    /\ address_order = <<>>
    /\ inputs \in {<<line>> : line \in OutboundLines}
    /\ Fresh

\* parse_any(raw) on the next line
ParseDescriptor ==
    /\ pc = "make_outbound"
    /\ Len(rets) < Len(inputs)
    /\ rets' = Append(rets, parse_any(inputs[Len(rets) + 1]))
    /\ UNCHANGED <<envVars, probeVars, mainVars, patternVars, pc, parseVars, tagVars,
                   buildVars, error, inputs>>

\* make_outbound_from_parsed(parsed, tag_map) on the next record
CallMakeOutbound ==
    /\ pc = "make_outbound"
    /\ Len(outs) < Len(rets)
    /\ IsRecord(rets[Len(outs) + 1])
    /\ outs' = Append(outs, make_outbound_from_parsed(rets[Len(outs) + 1], tag_map))
    /\ UNCHANGED <<envVars, lookups, mainVars, patternVars, pc, parseVars, tagVars,
                   buildVars, error, callVars>>

NextOutbound == ParseDescriptor \/ CallMakeOutbound

\* calls of make_outbound_from_parsed on parsed records
SpecOutbound == InitOutbound /\ [][NextOutbound]_vars

(***************************************************************************)
(* main.py: expand_range (lines 490-500).                                  *)
(***************************************************************************)

\* the match of \{(\d+)-(\d+)\} that starts at position i of s, None when
\* there is none: the position after the match and the two groups
RangeMatchAt(s, i) ==
    Let(SkipDigits(s, i + 1), LAMBDA dash :
    Let(SkipDigits(s, dash + 1), LAMBDA brace :
        IF /\ s[i] = "{"
           /\ dash > i + 1
           /\ dash <= Len(s)
           /\ s[dash] = "-"
           /\ brace > dash + 1
           /\ brace <= Len(s)
           /\ s[brace] = "}"
        THEN [start |-> i, end |-> brace + 1,
              group1 |-> SubSeq(s, i + 1, dash - 1),
              group2 |-> SubSeq(s, dash + 1, brace - 1)]
        ELSE PyNone))

\* re.search(r"\{(\d+)-(\d+)\}", pattern): the leftmost match, or None
RangeSearch(pattern) ==
    Let({i \in 1..Len(pattern) : RangeMatchAt(pattern, i) # PyNone}, LAMBDA starts :
        IF starts = {} THEN PyNone
        ELSE RangeMatchAt(pattern, CHOOSE i \in starts : \A j \in starts : i <= j))

\* an expansion that counts from zero whatever N is
expand_range_from_zero(pattern) ==
    Let(RangeSearch(pattern), LAMBDA match :
        IF match = PyNone THEN <<pattern>>
        ELSE Let(DigitsValue(match.group2), LAMBDA end :
                 [k \in 1..(end + 1) |->
                     SubSeq(pattern, 1, match.start - 1) \o IntToText(k - 1)
                         \o From(pattern, match.end)]))

\* expand_range(pattern): the list of the expanded strings
expand_range(pattern) ==
    Let(RangeSearch(pattern), LAMBDA match :
        IF match = PyNone THEN <<pattern>>
        ELSE Let(DigitsValue(match.group1), LAMBDA start :
             Let(DigitsValue(match.group2), LAMBDA end :
                 IF end < start THEN <<>>
                 ELSE [k \in 1..(end + 1 - start) |->
                          SubSeq(pattern, 1, match.start - 1) \o IntToText(start + k - 1)
                              \o From(pattern, match.end)])))

\* the greatest N and M of the ranges written without leading zeros
MaxRange == 3

\* the ends of a range: the digits written and the number they denote
RangeEnds ==
    {[text |-> IntToText(n), n |-> n] : n \in 0..MaxRange}
        \cup {[text |-> <<"0", "8">>, n |-> 8], [text |-> <<"1", "0">>, n |-> 10]}

\* what stands before the first range of a template: nothing that is a range
TemplateHeads == {<<>>, <<"h", "t", "t", "p", ":", "/", "/", "h", "/">>, <<"{", "x", "}">>, <<"{", "1", "-">>, <<"{", "2", "-", "b", "}">>}

\* templates with a first range lo-hi, and what may follow it
RangeTemplates ==
    [head : TemplateHeads, lo : RangeEnds, hi : RangeEnds,
     tail : {<<>>, <<"/", "b">>, <<"{", "2", "-", "3", "}">>}]

\* templates without a range
PlainTemplates ==
    [head : TemplateHeads, tail : {<<>>, <<"/", "b">>, <<"{", "2", "-", "}">>, <<"{", "-", "3", "}">>}]

\* the text of a template
TemplateText(template) ==
    IF "lo" \in DOMAIN template
    THEN template.head \o <<"{">> \o template.lo.text \o <<"-">> \o template.hi.text
             \o <<"}">> \o template.tail
    ELSE template.head \o template.tail

\* expand_range is called on the text of a template
InitExpand ==
    /\ country_filter_env = PyStr(<<>>)
    /\ protocol_filter_env = PyStr(<<>>)
    /\ list_file = <<>>
    /\ pc = "expand_range"
    /\ address_order = <<>>
    /\ inputs \in {<<template>> : template \in RangeTemplates \cup PlainTemplates}
    /\ Fresh

\* expand_range(pattern)
CallExpandRange ==
    /\ pc = "expand_range"
    /\ Len(rets) < Len(inputs)
    /\ rets' = Append(rets, PyList(expand_range(TemplateText(inputs[Len(rets) + 1]))))
    /\ UNCHANGED <<envVars, probeVars, mainVars, patternVars, pc, parseVars, tagVars,
                   buildVars, error, inputs>>

NextExpand == CallExpandRange

\* calls of expand_range
SpecExpand == InitExpand /\ [][NextExpand]_vars

(***************************************************************************)
(* main.py: the subscription variant.  process_clash_meta, process_hysteria,*)
(* process_hysteria2 and process_xray (lines 57-313) read one payload each *)
(* and keep its proxies in extracted_proxies, the keys of the servers seen *)
(* in servers_list and the number of names given per country in            *)
(* country_counters.                                                       *)
(***************************************************************************)

\* f"{v}" for a str, an int, a bool or None
Format(v) ==
    CASE v.t = "str"  -> v.s
      [] v.t = "int"  -> SignedText(v.n)
      [] v.t = "bool" -> IF v.b THEN <<"T", "r", "u", "e">> ELSE <<"F", "a", "l", "s", "e">>
      [] v.t = "None" -> <<"N", "o", "n", "e">>

\* v[n] for a list, counted from 0: IndexError (Exc) past its end, KeyError
\* or TypeError (Exc) for a value that is no list
ListItem(v, n) ==
    IF v.t = "list" /\ n < Len(v.items) THEN v.items[n + 1] ELSE Exc

\* a group of an IPv6 address: one to four hexadecimal digits
IsHextet(part) ==
    Len(part) \in 1..4 /\ \A k \in 1..Len(part) : IsHexDigit(part[k])

\* ipaddress.ip_address(address) is an IPv6Address: eight groups, or fewer
\* around one "::" (the forms with a scope id or an embedded IPv4 address
\* are not among the servers of the model)
IsIPv6(address) ==
    Let(Split(address, <<":">>), LAMBDA parts :
    Let({k \in 2..(Len(parts) - 1) : parts[k] = <<>>}, LAMBDA inner :
        /\ Len(parts) \in 3..9
        /\ Cardinality(inner) <= 1
        /\ \A k \in 1..Len(parts) : parts[k] # <<>> => IsHextet(parts[k])
        /\ IF inner = {}
           THEN Len(parts) = 8 /\ parts[1] # <<>> /\ parts[8] # <<>>
           ELSE /\ parts[1] = <<>> => inner = {2}
                /\ parts[Len(parts)] = <<>> => inner = {Len(parts) - 1}
                /\ Cardinality({k \in 1..Len(parts) : parts[k] # <<>>}) <= 7))

\* is_ipv4_or_domain(address) with DEBUG_MODE False (lines 30-37): False
\* for an IPv6 address only
is_ipv4_or_domain(address) == address.t # "str" \/ ~IsIPv6(address.s)

\* the count format_proxy_name stores for country (lines 25-26)
NextCount(counters_, country) ==
    (IF country \in DOMAIN counters_ THEN counters_[country] ELSE 0) + 1

\* f"{country}-{count:02d}" (line 27)
ProxyName(country, count) ==
    country \o <<"-">> \o (IF count < 10 THEN <<"0">> ELSE <<>>) \o IntToText(count)

\* what get_physical_location can return (lines 316-329): the country code
\* the database has for the server, or Unknown when the lookup raises
Locations == {<<"U", "S">>, <<"U", "n", "k", "n", "o", "w", "n">>}

\* the members of a list
ListMembers(list) == {list[k] : k \in 1..Len(list)}

\* the state of main.py as one record
MainState == [country_counters |-> country_counters,
              extracted_proxies |-> extracted_proxies,
              servers_list |-> servers_list]

\* format_proxy_name(location) has run and given name
Named(st, location) ==
    [st EXCEPT !.country_counters =
                   Put(st.country_counters, location,
                       NextCount(st.country_counters, location))]

\* extracted_proxies.append(proxy); servers_list.append(key)
Kept(st, proxy, key) ==
    [st EXCEPT !.extracted_proxies = Append(st.extracted_proxies, proxy),
               !.servers_list = Append(st.servers_list, key)]

\* the proxy and its key are appended although the key is in servers_list
KeptIfNewAlways(st, proxy, key) == Kept(st, proxy, key)

\* lines 134-136, 171-173, 309-311: the proxy and its key are appended
\* unless the key is in servers_list
KeptIfNew(st, proxy, key) ==
    IF key \notin ListMembers(st.servers_list) THEN Kept(st, proxy, key) ELSE st

\* payloads of process_hysteria: a server, the same server again under
\* another password, and a payload that lacks the key protocol
HysteriaPayloads ==
    {<<"{", "\"", "s", "e", "r", "v", "e", "r", "\"", ":", " ", "\"", "h", ".", "u", "s", ":", "4", "4", "3", "\"", ",", " ", "\"", "a", "u", "t", "h", "_", "s", "t", "r", "\"", ":", " ", "\"", "a", "\"", ",", " ", "\"", "i", "n", "s", "e", "c", "u", "r", "e", "\"", ":", " ", "t", "r", "u", "e", ",", " ", "\"", "s", "e", "r", "v", "e", "r", "_", "n", "a", "m", "e", "\"", ":", " ", "\"", "s", ".", "u", "s", "\"", ",", " ", "\"", "a", "l", "p", "n", "\"", ":", " ", "\"", "h", "3", "\"", ",", " ", "\"", "p", "r", "o", "t", "o", "c", "o", "l", "\"", ":", " ", "\"", "u", "d", "p", "\"", "}">>,
     <<"{", "\"", "s", "e", "r", "v", "e", "r", "\"", ":", " ", "\"", "h", ".", "u", "s", ":", "4", "4", "3", ",", "5", "0", "0", "0", "-", "6", "0", "0", "0", "\"", ",", " ", "\"", "a", "u", "t", "h", "_", "s", "t", "r", "\"", ":", " ", "\"", "b", "\"", ",", " ", "\"", "i", "n", "s", "e", "c", "u", "r", "e", "\"", ":", " ", "t", "r", "u", "e", ",", " ", "\"", "s", "e", "r", "v", "e", "r", "_", "n", "a", "m", "e", "\"", ":", " ", "\"", "s", ".", "u", "s", "\"", ",", " ", "\"", "a", "l", "p", "n", "\"", ":", " ", "\"", "h", "3", "\"", ",", " ", "\"", "p", "r", "o", "t", "o", "c", "o", "l", "\"", ":", " ", "\"", "u", "d", "p", "\"", "}">>,
     <<"{", "\"", "s", "e", "r", "v", "e", "r", "\"", ":", " ", "\"", "h", ".", "u", "s", ":", "4", "4", "3", "\"", ",", " ", "\"", "a", "u", "t", "h", "_", "s", "t", "r", "\"", ":", " ", "\"", "a", "\"", ",", " ", "\"", "i", "n", "s", "e", "c", "u", "r", "e", "\"", ":", " ", "t", "r", "u", "e", ",", " ", "\"", "s", "e", "r", "v", "e", "r", "_", "n", "a", "m", "e", "\"", ":", " ", "\"", "s", ".", "u", "s", "\"", ",", " ", "\"", "a", "l", "p", "n", "\"", ":", " ", "\"", "h", "3", "\"", "}">>}

\* payloads of process_hysteria2: a server and a payload without a port
Hysteria2Payloads ==
    {<<"{", "\"", "s", "e", "r", "v", "e", "r", "\"", ":", " ", "\"", "h", ".", "u", "s", ":", "4", "4", "3", "\"", ",", " ", "\"", "a", "u", "t", "h", "\"", ":", " ", "\"", "a", "\"", ",", " ", "\"", "t", "l", "s", "\"", ":", " ", "{", "\"", "s", "n", "i", "\"", ":", " ", "\"", "s", ".", "u", "s", "\"", ",", " ", "\"", "i", "n", "s", "e", "c", "u", "r", "e", "\"", ":", " ", "t", "r", "u", "e", "}", "}">>,
     <<"{", "\"", "s", "e", "r", "v", "e", "r", "\"", ":", " ", "\"", "h", ".", "u", "s", "\"", ",", " ", "\"", "a", "u", "t", "h", "\"", ":", " ", "\"", "a", "\"", ",", " ", "\"", "t", "l", "s", "\"", ":", " ", "{", "\"", "s", "n", "i", "\"", ":", " ", "\"", "s", ".", "u", "s", "\"", ",", " ", "\"", "i", "n", "s", "e", "c", "u", "r", "e", "\"", ":", " ", "t", "r", "u", "e", "}", "}">>}

\* the document json.loads returns for a payload of process_xray: one
\* outbound of the protocol to the server x.us:443 with one user
XrayDocument(protocol, user, stream) ==
    PyDict(<<"o", "u", "t", "b", "o", "u", "n", "d", "s">> :> PyList(<<
        PyDict((<<"p", "r", "o", "t", "o", "c", "o", "l">> :> PyStr(protocol))
            @@ (<<"s", "e", "t", "t", "i", "n", "g", "s">> :> PyDict(<<"v", "n", "e", "x", "t">> :> PyList(<<
                    PyDict((<<"a", "d", "d", "r", "e", "s", "s">> :> PyStr(<<"x", ".", "u", "s">>)) @@ (<<"p", "o", "r", "t">> :> PyInt(443))
                        @@ (<<"u", "s", "e", "r", "s">> :> PyList(<<user>>)))>>)))
            @@ (<<"s", "t", "r", "e", "a", "m", "S", "e", "t", "t", "i", "n", "g", "s">> :> stream))>>))

\* payloads of process_xray, as documents: a vmess server over ws, the same
\* server over quic, a vless server over tcp, the same with reality and no
\* public key, and a payload of another protocol
XrayPayloads ==
    {XrayDocument(<<"v", "m", "e", "s", "s">>,
                  PyDict((<<"i", "d">> :> PyStr(<<"u">>)) @@ (<<"a", "l", "t", "e", "r", "I", "d">> :> PyInt(0))
                         @@ (<<"s", "e", "c", "u", "r", "i", "t", "y">> :> PyStr(<<"a", "u", "t", "o">>))),
                  PyDict((<<"n", "e", "t", "w", "o", "r", "k">> :> PyStr(<<"w", "s">>))
                         @@ (<<"w", "s", "S", "e", "t", "t", "i", "n", "g", "s">> :> PyDict((<<"p", "a", "t", "h">> :> PyStr(<<"/", "w">>))
                                @@ (<<"h", "e", "a", "d", "e", "r", "s">> :> PyDict(<<"H", "o", "s", "t">> :> PyStr(<<"c", ".", "u", "s">>))))))),
     XrayDocument(<<"v", "m", "e", "s", "s">>,
                  PyDict((<<"i", "d">> :> PyStr(<<"u">>)) @@ (<<"a", "l", "t", "e", "r", "I", "d">> :> PyInt(0))
                         @@ (<<"s", "e", "c", "u", "r", "i", "t", "y">> :> PyStr(<<"a", "u", "t", "o">>))),
                  PyDict(<<"n", "e", "t", "w", "o", "r", "k">> :> PyStr(<<"q", "u", "i", "c">>))),
     XrayDocument(<<"v", "l", "e", "s", "s">>, PyDict(<<"i", "d">> :> PyStr(<<"u">>)),
                  PyDict((<<"n", "e", "t", "w", "o", "r", "k">> :> PyStr(<<"t", "c", "p">>)) @@ (<<"s", "e", "c", "u", "r", "i", "t", "y">> :> PyStr(<<"t", "l", "s">>)))),
     XrayDocument(<<"v", "l", "e", "s", "s">>, PyDict(<<"i", "d">> :> PyStr(<<"u">>)),
                  PyDict((<<"n", "e", "t", "w", "o", "r", "k">> :> PyStr(<<"t", "c", "p">>))
                         @@ (<<"s", "e", "c", "u", "r", "i", "t", "y">> :> PyStr(<<"r", "e", "a", "l", "i", "t", "y">>)))),
     PyDict(<<"o", "u", "t", "b", "o", "u", "n", "d", "s">> :> PyList(<<PyDict(<<"p", "r", "o", "t", "o", "c", "o", "l">> :> PyStr(<<"f", "r", "e", "e", "d", "o", "m">>))>>))}

\* payloads of process_clash_meta, in the flow style of YAML: two proxies
\* of which the second is at the server of the first, a ws proxy next to an
\* IPv6 server, and a document without proxies
ClashPayloads ==
    {<<"{", "\"", "p", "r", "o", "x", "i", "e", "s", "\"", ":", " ", "[", "{", "\"", "n", "a", "m", "e", "\"", ":", " ", "\"", "a", "\"", ",", " ", "\"", "t", "y", "p", "e", "\"", ":", " ", "\"", "s", "s", "\"", ",", " ", "\"", "s", "e", "r", "v", "e", "r", "\"", ":", " ", "\"", "k", ".", "u", "s", "\"", ",", " ", "\"", "p", "o", "r", "t", "\"", ":", " ", "8", "3", "8", "8", "}", ",", " ", "{", "\"", "n", "a", "m", "e", "\"", ":", " ", "\"", "b", "\"", ",", " ", "\"", "t", "y", "p", "e", "\"", ":", " ", "\"", "s", "s", "\"", ",", " ", "\"", "s", "e", "r", "v", "e", "r", "\"", ":", " ", "\"", "k", ".", "u", "s", "\"", ",", " ", "\"", "p", "o", "r", "t", "\"", ":", " ", "8", "3", "8", "8", "}", ",", " ", "{", "\"", "n", "a", "m", "e", "\"", ":", " ", "\"", "c", "\"", ",", " ", "\"", "t", "y", "p", "e", "\"", ":", " ", "\"", "s", "s", "\"", ",", " ", "\"", "s", "e", "r", "v", "e", "r", "\"", ":", " ", "\"", "m", ".", "u", "s", "\"", ",", " ", "\"", "p", "o", "r", "t", "\"", ":", " ", "1", "}", "]", "}">>,
     <<"{", "\"", "p", "r", "o", "x", "i", "e", "s", "\"", ":", " ", "[", "{", "\"", "n", "a", "m", "e", "\"", ":", " ", "\"", "a", "\"", ",", " ", "\"", "t", "y", "p", "e", "\"", ":", " ", "\"", "v", "m", "e", "s", "s", "\"", ",", " ", "\"", "s", "e", "r", "v", "e", "r", "\"", ":", " ", "\"", "x", ".", "u", "s", "\"", ",", " ", "\"", "p", "o", "r", "t", "\"", ":", " ", "4", "4", "3", ",", " ", "\"", "n", "e", "t", "w", "o", "r", "k", "\"", ":", " ", "\"", "w", "s", "\"", ",", " ", "\"", "w", "s", "-", "o", "p", "t", "s", "\"", ":", " ", "{", "\"", "h", "e", "a", "d", "e", "r", "s", "\"", ":", " ", "{", "\"", "H", "o", "s", "t", "\"", ":", " ", "\"", "c", ".", "u", "s", "\"", "}", "}", "}", ",", " ", "{", "\"", "n", "a", "m", "e", "\"", ":", " ", "\"", "b", "\"", ",", " ", "\"", "t", "y", "p", "e", "\"", ":", " ", "\"", "s", "s", "\"", ",", " ", "\"", "s", "e", "r", "v", "e", "r", "\"", ":", " ", "\"", ":", ":", "1", "\"", ",", " ", "\"", "p", "o", "r", "t", "\"", ":", " ", "8", "3", "8", "8", "}", "]", "}">>,
     <<"{", "\"", "p", "o", "r", "t", "\"", ":", " ", "7", "8", "9", "0", "}">>}

\* the payloads the model gives as text
Payloads == HysteriaPayloads \cup Hysteria2Payloads \cup ClashPayloads

\* the documents of the payloads, each read once
PayloadContent == [data \in Payloads |-> JsonLoads(data)]

\* json.loads(data), and yaml.safe_load(data) for a document in flow style
json_loads(data) == PayloadContent[data]

\* process_hysteria(data, index), lines 92-139, when get_physical_location
\* returns location: the state it leaves
process_hysteria(st, data, location) ==
    Let(json_loads(data), LAMBDA content :
    Let(Index(content, <<"s", "e", "r", "v", "e", "r">>), LAMBDA address :
        IF IsExc(address) \/ address.t # "str" THEN st
        ELSE Let(Split(address.s, <<":">>), LAMBDA server_ports_slt :
             IF ~is_ipv4_or_domain(PyStr(server_ports_slt[1])) THEN st
             ELSE IF Len(server_ports_slt) < 2 THEN st
             ELSE Let(Split(server_ports_slt[2], <<",">>), LAMBDA ports_slt :
                  Let(IntOfText(ports_slt[1]), LAMBDA server_port :
                  Let(<<Index(content, <<"a", "u", "t", "h", "_", "s", "t", "r">>),
                        DictGet(content, <<"f", "a", "s", "t", "_", "o", "p", "e", "n">>, PyBool(TRUE)),
                        Index(content, <<"i", "n", "s", "e", "c", "u", "r", "e">>), Index(content, <<"s", "e", "r", "v", "e", "r", "_", "n", "a", "m", "e">>),
                        Index(content, <<"a", "l", "p", "n">>), Index(content, <<"p", "r", "o", "t", "o", "c", "o", "l">>)>>,
                      LAMBDA f :
                      IF IsExc(server_port) \/ \E k \in 1..Len(f) : IsExc(f[k]) THEN st
                      ELSE Let(Named(st, location), LAMBDA named :
                           KeptIfNew(named,
                               PyDict((<<"n", "a", "m", "e">> :> PyStr(ProxyName(location, named.country_counters[location])))
                                   @@ (<<"t", "y", "p", "e">> :> PyStr(<<"h", "y", "s", "t", "e", "r", "i", "a">>))
                                   @@ (<<"s", "e", "r", "v", "e", "r">> :> PyStr(server_ports_slt[1]))
                                   @@ (<<"p", "o", "r", "t">> :> server_port)
                                   @@ (<<"p", "o", "r", "t", "s">> :> (IF Len(ports_slt) > 1 THEN PyStr(ports_slt[2])
                                                     ELSE server_port))
                                   @@ (<<"a", "u", "t", "h", "-", "s", "t", "r">> :> f[1])
                                   @@ (<<"u", "p">> :> PyInt(80)) @@ (<<"d", "o", "w", "n">> :> PyInt(100))
                                   @@ (<<"f", "a", "s", "t", "-", "o", "p", "e", "n">> :> f[2]) @@ (<<"p", "r", "o", "t", "o", "c", "o", "l">> :> f[6])
                                   @@ (<<"s", "n", "i">> :> f[4]) @@ (<<"s", "k", "i", "p", "-", "c", "e", "r", "t", "-", "v", "e", "r", "i", "f", "y">> :> f[3])
                                   @@ (<<"a", "l", "p", "n">> :> PyList(<<f[5]>>))),
                               server_ports_slt[1] \o <<":">> \o Format(server_port)
                                   \o <<"-", "h", "y", "s", "t", "e", "r", "i", "a">>))))))))

\* process_hysteria2(data, index), lines 142-176
process_hysteria2(st, data, location) ==
    Let(json_loads(data), LAMBDA content :
    Let(Index(content, <<"s", "e", "r", "v", "e", "r">>), LAMBDA address :
        IF IsExc(address) \/ address.t # "str" THEN st
        ELSE Let(Split(address.s, <<":">>), LAMBDA server_ports_slt :
             IF ~is_ipv4_or_domain(PyStr(server_ports_slt[1])) THEN st
             ELSE IF Len(server_ports_slt) < 2 THEN st
             ELSE Let(IntOfText(Split(server_ports_slt[2], <<",">>)[1]), LAMBDA server_port :
                  Let(<<Index(content, <<"a", "u", "t", "h">>),
                        Index(Index(content, <<"t", "l", "s">>), <<"i", "n", "s", "e", "c", "u", "r", "e">>),
                        Index(Index(content, <<"t", "l", "s">>), <<"s", "n", "i">>)>>,
                      LAMBDA f :
                      IF IsExc(server_port) \/ \E k \in 1..Len(f) : IsExc(f[k]) THEN st
                      ELSE Let(Named(st, location), LAMBDA named :
                           KeptIfNew(named,
                               PyDict((<<"n", "a", "m", "e">> :> PyStr(ProxyName(location, named.country_counters[location])))
                                   @@ (<<"t", "y", "p", "e">> :> PyStr(<<"h", "y", "s", "t", "e", "r", "i", "a", "2">>))
                                   @@ (<<"s", "e", "r", "v", "e", "r">> :> PyStr(server_ports_slt[1]))
                                   @@ (<<"p", "o", "r", "t">> :> server_port)
                                   @@ (<<"p", "a", "s", "s", "w", "o", "r", "d">> :> f[1])
                                   @@ (<<"s", "n", "i">> :> f[3]) @@ (<<"s", "k", "i", "p", "-", "c", "e", "r", "t", "-", "v", "e", "r", "i", "f", "y">> :> f[2])),
                               server_ports_slt[1] \o <<":">> \o Format(server_port)
                                   \o <<"-", "h", "y", "s", "t", "e", "r", "i", "a", "2">>)))))))

\* pending_proxy['settings']['vnext'][0]
Vnext(pending_proxy) == ListItem(Index(Index(pending_proxy, <<"s", "e", "t", "t", "i", "n", "g", "s">>), <<"v", "n", "e", "x", "t">>), 0)

\* pending_proxy['settings']['vnext'][0]['users'][0]
VnextUser(pending_proxy) == ListItem(Index(Vnext(pending_proxy), <<"u", "s", "e", "r", "s">>), 0)

\* the vmess branch of process_xray (lines 193-239) after the IPv6 check
XrayVmess(st, pending_proxy, location) ==
    Let(Index(pending_proxy, <<"s", "t", "r", "e", "a", "m", "S", "e", "t", "t", "i", "n", "g", "s">>), LAMBDA stream :
    Let(<<Index(Vnext(pending_proxy), <<"a", "d", "d", "r", "e", "s", "s">>), Index(Vnext(pending_proxy), <<"p", "o", "r", "t">>),
          Index(VnextUser(pending_proxy), <<"i", "d">>), Index(VnextUser(pending_proxy), <<"a", "l", "t", "e", "r", "I", "d">>),
          Index(VnextUser(pending_proxy), <<"s", "e", "c", "u", "r", "i", "t", "y">>), Index(stream, <<"n", "e", "t", "w", "o", "r", "k">>),
          DictGet(stream, <<"s", "e", "c", "u", "r", "i", "t", "y">>, PyStr(<<"n", "o", "n", "e">>))>>,
        LAMBDA f :
        IF \E k \in 1..Len(f) : IsExc(f[k]) THEN st
        ELSE Let(Named(st, location), LAMBDA named :
             Let(<<OptsGet(stream, <<"t", "l", "s", "S", "e", "t", "t", "i", "n", "g", "s">>, <<"s", "e", "r", "v", "e", "r", "N", "a", "m", "e">>, PyStr(<<>>)),
                   OptsGet(stream, <<"t", "l", "s", "S", "e", "t", "t", "i", "n", "g", "s">>, <<"a", "l", "l", "o", "w", "I", "n", "s", "e", "c", "u", "r", "e">>, PyBool(FALSE))>>,
                 LAMBDA tls :
                 IF \E k \in 1..Len(tls) : IsExc(tls[k]) THEN named
                 ELSE IF f[6] \notin {PyStr(network) : network \in VmessNetworks} THEN named
                 ELSE Let(<<OptsGet(stream, <<"w", "s", "S", "e", "t", "t", "i", "n", "g", "s">>, <<"p", "a", "t", "h">>, PyStr(<<>>)),
                            OptsGet(stream, <<"w", "s", "S", "e", "t", "t", "i", "n", "g", "s">>, <<"h", "e", "a", "d", "e", "r", "s">>, PyDict(<<>>)),
                            OptsGet(stream, <<"g", "r", "p", "c", "S", "e", "t", "t", "i", "n", "g", "s">>, <<"s", "e", "r", "v", "i", "c", "e", "N", "a", "m", "e">>, PyStr(<<"/">>)),
                            OptsGet(stream, <<"h", "t", "t", "p", "S", "e", "t", "t", "i", "n", "g", "s">>, <<"p", "a", "t", "h">>, PyStr(<<"/">>)),
                            OptsGet(stream, <<"h", "t", "t", "p", "S", "e", "t", "t", "i", "n", "g", "s">>, <<"h", "o", "s", "t">>, PyList(<<>>))>>,
                          LAMBDA opts :
                          IF \E k \in 1..Len(opts) : IsExc(opts[k]) THEN named
                          ELSE KeptIfNew(named,
                                   PyDict((<<"n", "a", "m", "e">> :> PyStr(ProxyName(location, named.country_counters[location])))
                                       @@ (<<"t", "y", "p", "e">> :> PyStr(<<"v", "m", "e", "s", "s">>))
                                       @@ (<<"s", "e", "r", "v", "e", "r">> :> f[1]) @@ (<<"p", "o", "r", "t">> :> f[2])
                                       @@ (<<"u", "u", "i", "d">> :> f[3]) @@ (<<"a", "l", "t", "e", "r", "I", "d">> :> f[4])
                                       @@ (<<"c", "i", "p", "h", "e", "r">> :> f[5])
                                       @@ (<<"t", "l", "s">> :> PyBool(f[7] # PyStr(<<"n", "o", "n", "e">>)))
                                       @@ (<<"s", "e", "r", "v", "e", "r", "n", "a", "m", "e">> :> tls[1])
                                       @@ (<<"s", "k", "i", "p", "-", "c", "e", "r", "t", "-", "v", "e", "r", "i", "f", "y">> :> tls[2])
                                       @@ (<<"n", "e", "t", "w", "o", "r", "k">> :> f[6])
                                       @@ (<<"w", "s", "-", "o", "p", "t", "s">> :> PyDict((<<"p", "a", "t", "h">> :> opts[1])
                                                                   @@ (<<"h", "e", "a", "d", "e", "r", "s">> :> opts[2])))
                                       @@ (<<"g", "r", "p", "c", "-", "o", "p", "t", "s">> :> PyDict(<<"s", "e", "r", "v", "i", "c", "e", "N", "a", "m", "e">> :> opts[3]))
                                       @@ (<<"h", "2", "-", "o", "p", "t", "s">> :> PyDict((<<"p", "a", "t", "h">> :> opts[4])
                                                                   @@ (<<"h", "o", "s", "t">> :> opts[5])))),
                                   Format(f[1]) \o <<":">> \o Format(f[2]) \o <<"-", "v", "m", "e", "s", "s">>))))))

\* the networks process_xray keeps for vless without reality (line 279)
VlessNetworks == {<<"t", "c", "p">>, <<"w", "s">>, <<"g", "r", "p", "c">>}

\* the vless branch of process_xray (lines 240-305) after the IPv6 check
XrayVless(st, pending_proxy, location) ==
    Let(Index(pending_proxy, <<"s", "t", "r", "e", "a", "m", "S", "e", "t", "t", "i", "n", "g", "s">>), LAMBDA stream :
    Let(<<Index(Vnext(pending_proxy), <<"a", "d", "d", "r", "e", "s", "s">>), Index(Vnext(pending_proxy), <<"p", "o", "r", "t">>),
          Index(VnextUser(pending_proxy), <<"i", "d">>),
          DictGet(VnextUser(pending_proxy), <<"f", "l", "o", "w">>, PyStr(<<>>)),
          DictGet(stream, <<"s", "e", "c", "u", "r", "i", "t", "y">>, PyStr(<<"n", "o", "n", "e">>)), Index(stream, <<"n", "e", "t", "w", "o", "r", "k">>)>>,
        LAMBDA f :
        IF \E k \in 1..Len(f) : IsExc(f[k]) THEN st
        ELSE Let(Named(st, location), LAMBDA named :
             Let(PyStr(ProxyName(location, named.country_counters[location])), LAMBDA name :
             Let(Format(f[1]) \o <<":">> \o Format(f[2]) \o <<"-", "v", "l", "e", "s", "s">>, LAMBDA key :
             IF f[5] = PyStr(<<"r", "e", "a", "l", "i", "t", "y">>)
             THEN Let(DictGet(stream, <<"r", "e", "a", "l", "i", "t", "y", "S", "e", "t", "t", "i", "n", "g", "s">>, PyDict(<<>>)), LAMBDA reality :
                  Let(<<DictGet(reality, <<"s", "e", "r", "v", "e", "r", "N", "a", "m", "e">>, PyStr(<<>>)),
                        DictGet(reality, <<"s", "h", "o", "r", "t", "I", "d">>, PyStr(<<>>)),
                        Index(reality, <<"p", "u", "b", "l", "i", "c", "K", "e", "y">>), Index(reality, <<"f", "i", "n", "g", "e", "r", "p", "r", "i", "n", "t">>),
                        OptsGet(stream, <<"g", "r", "p", "c", "S", "e", "t", "t", "i", "n", "g", "s">>, <<"s", "e", "r", "v", "i", "c", "e", "N", "a", "m", "e">>, PyStr(<<"/">>))>>,
                      LAMBDA r :
                      IF \E k \in 1..Len(r) : IsExc(r[k]) THEN named
                      ELSE KeptIfNew(named,
                               PyDict((<<"n", "a", "m", "e">> :> name) @@ (<<"t", "y", "p", "e">> :> PyStr(<<"v", "l", "e", "s", "s">>))
                                   @@ (<<"s", "e", "r", "v", "e", "r">> :> f[1]) @@ (<<"p", "o", "r", "t">> :> f[2])
                                   @@ (<<"u", "u", "i", "d">> :> f[3]) @@ (<<"f", "l", "o", "w">> :> f[4])
                                   @@ (<<"t", "l", "s">> :> PyBool(TRUE))
                                   @@ (<<"s", "e", "r", "v", "e", "r", "n", "a", "m", "e">> :> r[1]) @@ (<<"n", "e", "t", "w", "o", "r", "k">> :> f[6])
                                   @@ (<<"c", "l", "i", "e", "n", "t", "-", "f", "i", "n", "g", "e", "r", "p", "r", "i", "n", "t">> :> r[4])
                                   @@ (<<"g", "r", "p", "c", "-", "o", "p", "t", "s">> :> PyDict(<<"g", "r", "p", "c", "-", "s", "e", "r", "v", "i", "c", "e", "-", "n", "a", "m", "e">> :> r[5]))
                                   @@ (<<"r", "e", "a", "l", "i", "t", "y", "-", "o", "p", "t", "s">> :> PyDict((<<"p", "u", "b", "l", "i", "c", "-", "k", "e", "y">> :> r[3])
                                                                    @@ (<<"s", "h", "o", "r", "t", "-", "i", "d">> :> r[2])))),
                               key)))
             ELSE IF f[6] \notin {PyStr(network) : network \in VlessNetworks} THEN named
             ELSE Let(<<OptsGet(stream, <<"t", "l", "s", "S", "e", "t", "t", "i", "n", "g", "s">>, <<"s", "e", "r", "v", "e", "r", "N", "a", "m", "e">>, PyStr(<<>>)),
                        OptsGet(stream, <<"t", "l", "s", "S", "e", "t", "t", "i", "n", "g", "s">>, <<"a", "l", "l", "o", "w", "I", "n", "s", "e", "c", "u", "r", "e">>, PyBool(FALSE)),
                        OptsGet(stream, <<"w", "s", "S", "e", "t", "t", "i", "n", "g", "s">>, <<"p", "a", "t", "h">>, PyStr(<<>>)),
                        OptsGet(stream, <<"w", "s", "S", "e", "t", "t", "i", "n", "g", "s">>, <<"h", "e", "a", "d", "e", "r", "s">>, PyDict(<<>>)),
                        OptsGet(stream, <<"g", "r", "p", "c", "S", "e", "t", "t", "i", "n", "g", "s">>, <<"s", "e", "r", "v", "i", "c", "e", "N", "a", "m", "e">>, PyStr(<<"/">>))>>,
                      LAMBDA opts :
                      IF \E k \in 1..Len(opts) : IsExc(opts[k]) THEN named
                      ELSE KeptIfNew(named,
                               PyDict((<<"n", "a", "m", "e">> :> name) @@ (<<"t", "y", "p", "e">> :> PyStr(<<"v", "l", "e", "s", "s">>))
                                   @@ (<<"s", "e", "r", "v", "e", "r">> :> f[1]) @@ (<<"p", "o", "r", "t">> :> f[2])
                                   @@ (<<"u", "u", "i", "d">> :> f[3])
                                   @@ (<<"t", "l", "s">> :> PyBool(f[5] # PyStr(<<"n", "o", "n", "e">>)))
                                   @@ (<<"s", "e", "r", "v", "e", "r", "n", "a", "m", "e">> :> opts[1])
                                   @@ (<<"s", "k", "i", "p", "-", "c", "e", "r", "t", "-", "v", "e", "r", "i", "f", "y">> :> opts[2])
                                   @@ (<<"n", "e", "t", "w", "o", "r", "k">> :> f[6])
                                   @@ (<<"w", "s", "-", "o", "p", "t", "s">> :> PyDict((<<"p", "a", "t", "h">> :> opts[3])
                                                               @@ (<<"h", "e", "a", "d", "e", "r", "s">> :> opts[4])))
                                   @@ (<<"g", "r", "p", "c", "-", "o", "p", "t", "s">> :> PyDict(<<"s", "e", "r", "v", "i", "c", "e", "N", "a", "m", "e">> :> opts[5]))),
                               key)))))))

\* process_xray(data, index), lines 179-313, when json.loads(data) returns
\* content
process_xray(st, content, location) ==
    Let(ListItem(Index(content, <<"o", "u", "t", "b", "o", "u", "n", "d", "s">>), 0), LAMBDA pending_proxy :
    Let(Index(pending_proxy, <<"p", "r", "o", "t", "o", "c", "o", "l">>), LAMBDA type :
        IF IsExc(type) THEN st
        ELSE IF type \notin {PyStr(<<"v", "m", "e", "s", "s">>), PyStr(<<"v", "l", "e", "s", "s">>)} THEN st
        ELSE Let(Index(Vnext(pending_proxy), <<"a", "d", "d", "r", "e", "s", "s">>), LAMBDA server :
             IF IsExc(server) THEN st
             ELSE IF ~is_ipv4_or_domain(server) THEN st
             ELSE IF type = PyStr(<<"v", "m", "e", "s", "s">>) THEN XrayVmess(st, pending_proxy, location)
             ELSE XrayVless(st, pending_proxy, location))))

\* lines 71-80: the key of a Clash proxy in servers_list, Exc when a field
\* it is made of is lacking
ClashKey(proxy) ==
    Let(<<Index(proxy, <<"s", "e", "r", "v", "e", "r">>), Index(proxy, <<"p", "o", "r", "t">>)>>, LAMBDA f :
        IF IsExc(f[1]) \/ IsExc(f[2]) THEN Exc
        ELSE IF <<"n", "e", "t", "w", "o", "r", "k">> \in DOMAIN proxy.m /\ Format(proxy.m[<<"n", "e", "t", "w", "o", "r", "k">>]) = <<"w", "s">>
        THEN Let(Index(Index(Index(proxy, <<"w", "s", "-", "o", "p", "t", "s">>), <<"h", "e", "a", "d", "e", "r", "s">>), <<"H", "o", "s", "t">>), LAMBDA host :
                 IF IsExc(host) THEN Exc
                 ELSE PyStr(Format(f[1]) \o <<":">> \o Format(f[2]) \o <<"-">> \o Format(host)
                                \o <<"-", "w", "s">>))
        ELSE Let(Index(proxy, <<"t", "y", "p", "e">>), LAMBDA type :
                 IF IsExc(type) THEN Exc
                 ELSE PyStr(Format(f[1]) \o <<":">> \o Format(f[2]) \o <<"-">> \o Format(type))))

\* one round of the loop of process_clash_meta (lines 65-86): the state it
\* leaves, and whether it raised
ClashProxy(st, proxy, location) ==
    Let(Index(proxy, <<"s", "e", "r", "v", "e", "r">>), LAMBDA server :
        IF IsExc(server) THEN [st |-> st, raised |-> TRUE]
        ELSE IF ~is_ipv4_or_domain(server) THEN [st |-> st, raised |-> FALSE]
        ELSE Let(ClashKey(proxy), LAMBDA key :
             IF IsExc(key) THEN [st |-> st, raised |-> TRUE]
             ELSE IF key.s \in ListMembers(st.servers_list) THEN [st |-> st, raised |-> FALSE]
             ELSE Let(Named(st, location), LAMBDA named :
                  [st |-> Kept(named,
                               PyDict(Put(proxy.m, <<"n", "a", "m", "e">>,
                                          PyStr(ProxyName(location,
                                                          named.country_counters[location])))),
                               key.s),
                   raised |-> FALSE])))

\* the number of proxies process_clash_meta reads from one payload
ClashProxiesRead == 2

\* process_clash_meta(data, index), lines 57-89, when get_physical_location
\* returns locations[1] for the first proxy and locations[2] for the second
process_clash_meta(st, data, locations) ==
    Let(json_loads(data), LAMBDA content :
    Let(Index(content, <<"p", "r", "o", "x", "i", "e", "s">>), LAMBDA found :
    Let(IF IsExc(found) THEN PyList(<<>>) ELSE found, LAMBDA proxies :
        IF IsExc(content) \/ proxies.t # "list" \/ proxies.items = <<>> THEN st
        ELSE Let(ClashProxy(st, proxies.items[1], locations[1]), LAMBDA first :
                 IF first.raised \/ Len(proxies.items) < ClashProxiesRead THEN first.st
                 ELSE ClashProxy(first.st, proxies.items[2], locations[2]).st))))

\* the largest number of payloads read
MaxPayloads == 3

\* main.py is started: nothing is extracted yet (lines 20, 547-548)
InitMain ==
    /\ country_filter_env = PyStr(<<>>)
    /\ protocol_filter_env = PyStr(<<>>)
    /\ list_file = <<>>
    /\ pc = "process_proxy"
    /\ address_order = <<>>
    /\ inputs = <<>>
    /\ Fresh

\* the state st is what a handler left after reading data
Handled(method, data, st) ==
    /\ inputs' = Append(inputs, [method |-> method, data |-> data])
    /\ country_counters' = st.country_counters
    /\ extracted_proxies' = st.extracted_proxies
    /\ servers_list' = st.servers_list
    /\ UNCHANGED <<envVars, probeVars, patternVars, pc, parseVars, tagVars, buildVars,
                   error, rets, proxy_urls>>

\* process_clash_meta reads a payload
ProcessClashMeta ==
    /\ pc = "process_proxy"
    /\ Len(inputs) < MaxPayloads
    /\ \E data \in ClashPayloads : \E locations \in [1..ClashProxiesRead -> Locations] :
          Handled("process_clash_meta", PyStr(data),
                  process_clash_meta(MainState, data, locations))

\* process_hysteria reads a payload
ProcessHysteria ==
    /\ pc = "process_proxy"
    /\ Len(inputs) < MaxPayloads
    /\ \E data \in HysteriaPayloads : \E location \in Locations :
          Handled("process_hysteria", PyStr(data), process_hysteria(MainState, data, location))

\* process_hysteria2 reads a payload
ProcessHysteria2 ==
    /\ pc = "process_proxy"
    /\ Len(inputs) < MaxPayloads
    /\ \E data \in Hysteria2Payloads : \E location \in Locations :
          Handled("process_hysteria2", PyStr(data), process_hysteria2(MainState, data, location))

\* process_xray reads a payload
ProcessXray ==
    /\ pc = "process_proxy"
    /\ Len(inputs) < MaxPayloads
    /\ \E content \in XrayPayloads : \E location \in Locations :
          Handled("process_xray", content, process_xray(MainState, content, location))

NextMain == ProcessClashMeta \/ ProcessHysteria \/ ProcessHysteria2 \/ ProcessXray

\* the handlers of main.py, called in any order
SpecMain == InitMain /\ [][NextMain]_vars

(***************************************************************************)
(* Properties of parse_any, checked under SpecParse.                       *)
(***************************************************************************)

\* the cases that give the two forms of one shadowsocks descriptor
SsFormCases == {<<SsFormA(d), SsFormB(d)>> : d \in SsDescriptors}

\* the cases that give a vmess line and the same line without its padding
VmessPaddingCases ==
    {<<VmessUrl(doc), StripPadding(VmessUrl(doc))>> : doc \in VmessDocs}

\* the vmess documents that are objects lacking a required field
LackingDocs ==
    {doc \in VmessDocs :
        LET v == JsonLoads(doc)
        IN  v.t = "dict" /\ ~({<<"a", "d", "d">>, <<"p", "o", "r", "t">>, <<"i", "d">>} \subseteq DOMAIN v.m)}

\* the vless and trojan URLs whose authority has no port
PortlessUrls ==
    {u \in UrlDescriptors : u.scheme \in {<<"v", "l", "e", "s", "s">>, <<"t", "r", "o", "j", "a", "n">>} /\ u.port = PyNone}

\* C1: for every input line, parse_any returns a canonical record or None
\* and never lets an exception escape to its caller.
C1_ParseAnyNeverRaises ==
    \A k \in 1..Len(rets) : rets[k] = PyNone \/ IsRecord(rets[k])

\* C6: the two forms of a shadowsocks descriptor, built from the same
\* method, password, host and port, parse to identical canonical records.
C6_SsFormsAgree ==
    (inputs \in SsFormCases /\ Len(rets) = 2) => rets[1] = rets[2]

C8_VmessLackingFieldIsNone ==
    \A doc \in LackingDocs :
        (inputs[1] = VmessUrl(doc) /\ Len(rets) >= 1) => rets[1] = PyNone

\* C9: every canonical record a parser returns has an integer port in the
\* range 1..65535.
C9_PortInRange ==
    \A k \in 1..Len(rets) :
        IsRecord(rets[k]) =>
            /\ rets[k].port.t = "int"
            /\ rets[k].port.n >= 1
            /\ rets[k].port.n <= MaxPort

\* C10: a vmess line whose base64 payload has lost its trailing padding
\* parses to the same record as the padded line.
C10_VmessPaddingIsOptional ==
    (/\ inputs \in VmessPaddingCases
     /\ inputs[1] # inputs[2]
     /\ Len(rets) = 2
     /\ IsRecord(rets[1]))
        => rets[2] = rets[1]

(***************************************************************************)
(* Properties of process_configs, checked under Spec.                      *)
(***************************************************************************)

\* the lines of the list file that parse to a record with an address
ValidLines ==
    {k \in 1..Len(list_file) :
        LET r == parse_any(list_file[k])
        IN  IsRecord(r) /\ Truthy(r.address)}

\* C2: when no filter excludes anything and the file holds a valid line,
\* process_configs writes the output with one generated outbound for each
\* valid line, whatever other lines the file holds: a line that fails is
\* dropped and the batch goes on.
C2_BadLineNeverAbortsBatch ==
    (/\ pc = "done"
     /\ country_pattern = PyList(<<>>)
     /\ protocol_pattern = PyList(<<>>)
     /\ ValidLines # {})
        => /\ output_file # PyNone
           /\ Len(outbounds) = Cardinality(ValidLines)

\* C3: with neither filter variable set and the scenario line as the only
\* line, the run ends with exactly one generated outbound, of type
\* shadowsocks, carrying the method, password, host and port of the line.
C3_ScenarioGivesOneShadowsocks ==
    (/\ country_filter_env = PyNone
     /\ protocol_filter_env = PyNone
     /\ list_file = <<ScenarioLine>>
     /\ pc \in {"done", "import_error"})
        => /\ Len(outbounds) = 1
           /\ outbounds[1].type = PyStr(<<"s", "h", "a", "d", "o", "w", "s", "o", "c", "k", "s">>)
           /\ outbounds[1].method = PyStr(<<"a", "e", "s", "-", "2", "5", "6", "-", "g", "c", "m">>)
           /\ outbounds[1].password = PyStr(<<"p", "a", "s", "s", "w", "o", "r", "d">>)
           /\ outbounds[1].server = PyStr(<<"1", ".", "2", ".", "3", ".", "4">>)
           /\ outbounds[1].server_port = PyInt(8388)

\* C4: a record passes the filters exactly when its protocol is a member of
\* the protocol allow-list (ss standing for shadowsocks) and its country code
\* a member of the country allow-list, as whole names with letter case
\* ignored, an empty list allowing everything: the outbounds generated so
\* far are those of the admitted records among the records the build loop
\* has consumed.
C4_FiltersAreWholeNameAllowLists ==
    LET ProtocolOfEntry(e) ==
            IF ToLower(e) = <<"s", "s">> THEN <<"s", "h", "a", "d", "o", "w", "s", "o", "c", "k", "s">> ELSE ToLower(e)
        InProtocolList(items, name) ==
            items = <<>>
                \/ \E k \in 1..Len(items) : ProtocolOfEntry(items[k]) = ToLower(name)
        InCountryList(items, code) ==
            items = <<>>
                \/ \E k \in 1..Len(items) : ToLower(items[k]) = ToLower(code)
        Admitted(p) ==
            /\ Truthy(p.address)
            /\ InProtocolList(protocol_pattern.items, p.proto.s)
            /\ InCountryList(country_pattern.items, TagPrefix(tag_map, p.address))
        admitted == SelectSeq(SubSeq(parsed_list, 1, out_no), Admitted)
    IN  pc \in {"build", "done"} =>
            [k \in 1..Len(outbounds) |-> outbounds[k].type]
                = [k \in 1..Len(admitted) |-> admitted[k].proto]

(***************************************************************************)
(* Properties of build_tags_for_addresses, checked under SpecTags.         *)
(***************************************************************************)

\* the country code the tag of a resolved address starts with
CountryOf(a) ==
    IF cache[a].country_code # <<>> THEN ToUpper(cache[a].country_code)
    ELSE <<"U", "N", "K">>

\* the index written in a tag "CC index - isp"
IndexText(tag) == Split(tag, <<" ">>)[2]

\* C5: the k-th distinct address of a country code, in first-appearance
\* order, gets index k; a repeated address does not advance the counter of
\* its country; no two distinct addresses of one country share an index; and
\* every address of the list has its tag when the function returns.
C5_PerCountryIndexByFirstAppearance ==
    LET FirstAt(a) ==
            CHOOSE i \in 1..Len(address_order) :
                /\ address_order[i] = a
                /\ \A j \in 1..(i - 1) : address_order[j] # a
        Rank(a) ==
            Cardinality({b \in DOMAIN tag_map :
                            CountryOf(b) = CountryOf(a) /\ FirstAt(b) <= FirstAt(a)})
    IN
    pc \in {"resolve", "build"} =>
        /\ \A a \in DOMAIN tag_map :
              tag_map[a] = TagText(CountryOf(a), Rank(a), clean_isp_name(cache[a].isp))
        /\ \A cc \in DOMAIN counters :
              counters[cc] = Cardinality({a \in DOMAIN tag_map : CountryOf(a) = cc})
        /\ \A a, b \in DOMAIN tag_map :
              (a # b /\ CountryOf(a) = CountryOf(b))
                  => IndexText(tag_map[a]) # IndexText(tag_map[b])
        /\ pc = "build" =>
              DOMAIN tag_map = {address_order[i] : i \in 1..Len(address_order)}

\* the list [A, B, A, C], all three in the US, has been tagged 1, 2, 3
C5_Witness ==
    /\ pc = "build"
    /\ Len(address_order) = 4
    /\ address_order[1] = address_order[3]
    /\ Cardinality(DOMAIN tag_map) = 3
    /\ \A a \in DOMAIN tag_map : CountryOf(a) = <<"U", "S">>
    /\ IndexText(tag_map[address_order[1]]) = <<"1">>
    /\ IndexText(tag_map[address_order[2]]) = <<"2">>
    /\ IndexText(tag_map[address_order[4]]) = <<"3">>


(***************************************************************************)
(* Properties of the vmess round trip, checked under SpecRoundTrip.        *)
(***************************************************************************)

\* C11: the record parse_any reads back from the vmess link of a proxy
\* equals the proxy on address, port, id, network and tls, on the path for
\* ws, grpc and h2, and on the host for ws and h2, also for a ws proxy
\* whose host header is kept under the key Host.
C11_VmessRoundTrip ==
    (pc = "reparse" /\ Len(rets) = 1) =>
        LET proxy == inputs[1].m
            record == rets[1]
            network == proxy[<<"n", "e", "t", "w", "o", "r", "k">>].s
            headers == proxy[<<"w", "s", "-", "o", "p", "t", "s">>].m[<<"h", "e", "a", "d", "e", "r", "s">>].m
            service == proxy[<<"g", "r", "p", "c", "-", "o", "p", "t", "s">>].m
        IN  /\ IsRecord(record)
            /\ record.address = proxy[<<"s", "e", "r", "v", "e", "r">>]
            /\ record.port = proxy[<<"p", "o", "r", "t">>]
            /\ record.id = proxy[<<"u", "u", "i", "d">>]
            /\ record.net = proxy[<<"n", "e", "t", "w", "o", "r", "k">>]
            /\ record.tls = (IF proxy[<<"t", "l", "s">>].b THEN PyStr(<<"t", "l", "s">>) ELSE PyStr(<<>>))
            /\ network = <<"w", "s">> =>
                  /\ record.path = proxy[<<"w", "s", "-", "o", "p", "t", "s">>].m[<<"p", "a", "t", "h">>]
                  /\ \A header \in DOMAIN headers : record.host = headers[header]
            /\ network = <<"g", "r", "p", "c">> =>
                  \A key \in DOMAIN service : record.path = service[key]
            /\ network = <<"h", "2">> =>
                  /\ record.path = proxy[<<"h", "2", "-", "o", "p", "t", "s">>].m[<<"p", "a", "t", "h">>]
                  /\ record.host = proxy[<<"h", "2", "-", "o", "p", "t", "s">>].m[<<"h", "o", "s", "t">>].items[1]

(***************************************************************************)
(* Properties of parse_hysteria2, checked under SpecParse.                 *)
(***************************************************************************)

\* the hysteria2 and hy2 URLs among the descriptors
Hysteria2Urls ==
    {u \in UrlDescriptors : u.scheme \in {<<"h", "y", "s", "t", "e", "r", "i", "a", "2">>, <<"h", "y", "2">>}}

\* C12: a hysteria2 URL without a port parses to None, and the password of
\* the record of a hysteria2 URL is the userinfo of the URL when it has one
\* and the value of the password query parameter (q in the descriptors that
\* have a query) otherwise.
C12_Hysteria2PasswordAndPort ==
    \A u \in Hysteria2Urls :
        (inputs = <<Url(u)>> /\ Len(rets) = 1) =>
            /\ u.port = PyNone => rets[1] = PyNone
            /\ IsRecord(rets[1]) =>
                  rets[1].password =
                      (IF u.user # PyNone THEN u.user
                       ELSE IF u.query # PyNone THEN PyStr(<<"q">>)
                       ELSE PyStr(<<>>))

(***************************************************************************)
(* Properties of clean_isp_name, checked under SpecClean.                  *)
(***************************************************************************)

\* C13: clean_isp_name returns the first two words of the name that are no
\* stopwords in any case, without their periods and commas and joined by
\* one space, the one such word if there is only one, and Unknown if there
\* is none (also for the empty name); whitespace and hyphens separate
\* words.
C13_CleanIspName ==
    (pc = "clean_isp_name" /\ Len(rets) = 1) =>
        LET kept == SelectSeq(inputs[1].words, LAMBDA w : ~w.stop)
        IN  rets[1] = PyStr(IF Len(kept) >= 2 THEN kept[1].bare \o <<" ">> \o kept[2].bare
                            ELSE IF Len(kept) = 1 THEN kept[1].bare
                            ELSE <<"U", "n", "k", "n", "o", "w", "n">>)

\* clean_isp_name has returned Acme for Acme Cloud, Inc.
C13_Witness ==
    /\ pc = "clean_isp_name"
    /\ Len(inputs) = 1
    /\ IspText(inputs[1]) = <<"A", "c", "m", "e", " ", "C", "l", "o", "u", "d", ",", " ", "I", "n", "c", ".">>
    /\ rets = <<PyStr(<<"A", "c", "m", "e">>)>>

(***************************************************************************)
(* Properties of GeoIPResolver, checked under SpecResolver.                *)
(***************************************************************************)

\* C14: a call of get_country_and_isp never raises; when DNS or a database
\* fails the field it was to give is the empty string; no host is queried
\* twice; and a call returns what the first call with the same host
\* returned, whatever DNS and the databases answer by then.
C14_ResolverCachesFirstAnswer ==
    pc = "resolver" =>
        /\ \A k \in 1..Len(rets) :
              /\ DOMAIN rets[k] = {"country_code", "isp"}
              /\ \A j \in 1..k : inputs[j] = inputs[k] => rets[k] = rets[j]
        /\ \A i, j \in 1..Len(lookups) : lookups[i].host = lookups[j].host => i = j
        /\ \A i \in 1..Len(lookups) :
              /\ \E k \in 1..Len(rets) : inputs[k] = lookups[i].host
              /\ \A k \in 1..Len(rets) :
                    inputs[k] = lookups[i].host =>
                        /\ IsExc(lookups[i].country) => rets[k].country_code = <<>>
                        /\ IsExc(lookups[i].asn) => rets[k].isp = <<>>
                        /\ IsExc(lookups[i].dns) =>
                              rets[k] = [country_code |-> <<>>, isp |-> <<>>]

\* a host was called three times: the first call found the country while the
\* ISP database failed, and the later calls made no query
C14_Witness ==
    /\ pc = "resolver"
    /\ Len(rets) = 3
    /\ inputs[1] = inputs[2]
    /\ inputs[2] = inputs[3]
    /\ Len(lookups) = 1
    /\ IsExc(lookups[1].asn)
    /\ rets[3] = [country_code |-> <<"u", "s">>, isp |-> <<>>]

(***************************************************************************)
(* Properties of make_outbound_from_parsed, checked under SpecOutbound.    *)
(***************************************************************************)

\* C15: for a record of a parser, make_outbound_from_parsed returns None
\* when the protocol or the address of the record is absent or empty, and
\* otherwise an outbound whose type is the protocol of the record and whose
\* server is its address.
C15_OutboundForEveryRecord ==
    pc = "make_outbound" =>
        \A k \in 1..Len(outs) :
            IF ~Truthy(rets[k].proto) \/ ~Truthy(rets[k].address)
            THEN outs[k] = PyNone
            ELSE /\ {"type", "server"} \subseteq DOMAIN outs[k]
                 /\ outs[k].type = rets[k].proto
                 /\ outs[k].server = rets[k].address

\* C16: every outbound that make_outbound_from_parsed returns with a TLS
\* sub-object has insecure set to true in it.
C16_TlsIsInsecure ==
    pc = "make_outbound" =>
        \A k \in 1..Len(outs) :
            "tls" \in DOMAIN outs[k] => outs[k].tls.insecure = PyBool(TRUE)

\* a trojan record has been made an outbound with a TLS sub-object
C16_Witness ==
    /\ pc = "make_outbound"
    /\ Len(outs) = 1
    /\ rets[1].proto = PyStr(<<"t", "r", "o", "j", "a", "n">>)
    /\ "tls" \in DOMAIN outs[1]
    /\ outs[1].tls.enabled = PyBool(TRUE)
    /\ outs[1].tls.insecure = PyBool(TRUE)

(***************************************************************************)
(* Properties of the end of process_configs, checked under Spec.           *)
(***************************************************************************)

\* C17: the output file is written only by a run that generated at least
\* one outbound: a run in which no line parsed to a record, or in which no
\* record passed the protocol and country filters, ends with the file
\* untouched.
C17_FileWrittenOnlyWithOutbounds ==
    /\ output_file # PyNone => (pc = "done" /\ outbounds # <<>> /\ ~error)
    /\ (pc = "done" /\ (parsed_list = <<>> \/ outbounds = <<>>)) => output_file = PyNone

\* a run has ended in which a record with a tagged address was parsed, no
\* record passed the filters, and the file was not written
C17_Witness ==
    /\ pc = "done"
    /\ ~error
    /\ \E k \in 1..Len(parsed_list) : parsed_list[k].address \in DOMAIN tag_map
    /\ out_no = Len(parsed_list)
    /\ outbounds = <<>>
    /\ output_file = PyNone

(***************************************************************************)
(* Properties of expand_range, checked under SpecExpand.                   *)
(***************************************************************************)

\* C18: for a template whose first range is {N-M}, expand_range returns the
\* M-N+1 strings that have N, N+1, ..., M in the place of the range, in
\* that order, and the empty list when N is greater than M; for a template
\* without a range it returns the list of the template alone.
C18_ExpandRange ==
    (pc = "expand_range" /\ Len(rets) = 1) =>
        LET template == inputs[1]
            expanded == rets[1].items
        IN  IF "lo" \in DOMAIN template
            THEN /\ Len(expanded) = (IF template.lo.n > template.hi.n THEN 0
                                     ELSE template.hi.n - template.lo.n + 1)
                 /\ \A k \in 1..Len(expanded) :
                       expanded[k] = template.head \o IntToText(template.lo.n + k - 1)
                                         \o template.tail
            ELSE expanded = <<TemplateText(template)>>

\* the template http://h/{1-3}/b has been expanded to three strings
C18_Witness ==
    /\ pc = "expand_range"
    /\ Len(inputs) = 1
    /\ TemplateText(inputs[1]) = <<"h", "t", "t", "p", ":", "/", "/", "h", "/", "{", "1", "-", "3", "}", "/", "b">>
    /\ rets = <<PyList(<<<<"h", "t", "t", "p", ":", "/", "/", "h", "/", "1", "/", "b">>, <<"h", "t", "t", "p", ":", "/", "/", "h", "/", "2", "/", "b">>, <<"h", "t", "t", "p", ":", "/", "/", "h", "/", "3", "/", "b">>>>)>>

(***************************************************************************)
(* Properties of the handlers of main.py, checked under SpecMain.          *)
(***************************************************************************)

\* the name of a kept proxy
NameOf(proxy) == proxy.m[<<"n", "a", "m", "e">>].s

\* the proxies kept for one country code, in extraction order
CountryProxies(country) ==
    SelectSeq(extracted_proxies, LAMBDA proxy : StartsWith(NameOf(proxy), country \o <<"-">>))

\* C19: after any sequence of process_clash_meta, process_hysteria,
\* process_hysteria2 and process_xray calls, the proxies kept for one country
\* code carry the sequence numbers 1, 2, ..., k in extraction order: the
\* counter of the country is the number of its kept proxies, and a payload
\* dropped as a duplicate or as an unsupported network does not consume a
\* number
C19_SequenceNumbersHaveNoGaps ==
    pc = "process_proxy" =>
        \A country \in Locations :
            /\ \A k \in 1..Len(CountryProxies(country)) :
                  NameOf(CountryProxies(country)[k]) = ProxyName(country, k)
            /\ country \in DOMAIN country_counters =>
                  country_counters[country] = Len(CountryProxies(country))

(***************************************************************************)
(* Properties of the order of tagging and filtering, checked under Spec.   *)
(***************************************************************************)

\* the parsed addresses, each once
ParsedAddresses == {address_order[i] : i \in 1..Len(address_order)}

\* the position at which an address first appears among the parsed ones
FirstParsedAt(a) ==
    CHOOSE i \in 1..Len(address_order) :
        /\ address_order[i] = a
        /\ \A j \in 1..(i - 1) : address_order[j] # a

\* the rank of an address among all parsed unique addresses of its country,
\* in first-appearance order
RankAmongParsed(a) ==
    Cardinality({b \in ParsedAddresses :
                    CountryOf(b) = CountryOf(a) /\ FirstParsedAt(b) <= FirstParsedAt(a)})

\* the indices in the tags of the emitted outbounds of one country
EmittedIndices(cc) ==
    {IndexText(outbounds[k].tag.s) :
        k \in {j \in 1..Len(outbounds) : CountryOf(outbounds[j].server) = cc}}

\* C20: the filters are applied after the tags are assigned to all parsed
\* addresses: the tag of every emitted outbound is the tag of its address in
\* the tag map, and its index is the rank of the address among all parsed
\* unique addresses of its country, those of filtered-out records included.
C20_IndexIsRankAmongAllParsed ==
    (pc \in {"build", "done"} /\ outbounds # <<>>) =>
        /\ DOMAIN tag_map = ParsedAddresses
        /\ \A k \in 1..Len(outbounds) :
              /\ outbounds[k].server \in ParsedAddresses
              /\ outbounds[k].tag = PyStr(tag_map[outbounds[k].server])
              /\ IndexText(outbounds[k].tag.s) =
                     IntToText(RankAmongParsed(outbounds[k].server))

\* the protocol filter has dropped a shadowsocks record whose address has
\* index 1 in the US, and the only emitted outbound of the US has index 2
C20_Witness ==
    /\ pc = "done"
    /\ output_file # PyNone
    /\ protocol_filter_env = PyStr(<<"s", "s">>)
    /\ \E k \in 1..Len(parsed_list) :
          /\ parsed_list[k].proto = PyStr(<<"s", "h", "a", "d", "o", "w", "s", "o", "c", "k", "s">>)
          /\ parsed_list[k].address \in DOMAIN tag_map
          /\ CountryOf(parsed_list[k].address) = <<"U", "S">>
          /\ IndexText(tag_map[parsed_list[k].address]) = <<"1">>
          /\ \A j \in 1..Len(outbounds) : outbounds[j].server # parsed_list[k].address
    /\ EmittedIndices(<<"U", "S">>) = {<<"2">>}

(***************************************************************************)
(* Properties of the written configuration, checked under Spec.            *)
(***************************************************************************)

\* the selectors of the written configuration whose tag is MIXED
MixedSelectors ==
    {k \in 1..Len(output_file.outbounds) :
        /\ output_file.outbounds[k].type = PyStr(<<"s", "e", "l", "e", "c", "t", "o", "r">>)
        /\ output_file.outbounds[k].tag = PyStr(<<"M", "I", "X", "E", "D">>)}

\* the proxy outbounds of the written configuration: those with a server
WrittenProxies ==
    SelectSeq(output_file.outbounds, LAMBDA out : "server" \in DOMAIN out)

\* C21: in the written configuration there is one MIXED selector, and its
\* outbound list is the sequence of the tags of the generated proxy
\* outbounds, in their order in the outbound array and with their
\* multiplicity; the proxy outbounds written are the generated ones.
C21_MixedListsGeneratedTags ==
    output_file # PyNone =>
        /\ Cardinality(MixedSelectors) = 1
        /\ WrittenProxies = outbounds
        /\ \A k \in MixedSelectors :
              output_file.outbounds[k].outbounds =
                  [j \in 1..Len(WrittenProxies) |-> WrittenProxies[j].tag]

\* a configuration is written with two outbounds that carry one tag
C21_Witness ==
    /\ pc = "done"
    /\ output_file # PyNone
    /\ Len(WrittenProxies) >= 2
    /\ \E i, j \in 1..Len(WrittenProxies) :
          i # j /\ WrittenProxies[i].tag = WrittenProxies[j].tag

\* the records among the first n parsed ones that pass both filters and have
\* a protocol and an address
RecordsEmitted(n) ==
    {k \in 1..n :
        /\ PatternSearch(protocol_pattern.items, parsed_list[k].proto.s)
        /\ PatternSearch(country_pattern.items, TagPrefix(tag_map, parsed_list[k].address))
        /\ Truthy(parsed_list[k].proto)
        /\ Truthy(parsed_list[k].address)}

\* C22: two generated outbounds carry the same tag exactly when they have
\* the same server address; records are not deduplicated: every record that
\* passes the filters gives an outbound of its own, also when its address is
\* the address of an earlier record.
C22_SameTagIffSameAddress ==
    (pc \in {"build", "done"} /\ out_no > 0) =>
        /\ \A i, j \in 1..Len(outbounds) :
              (outbounds[i].tag = outbounds[j].tag)
                  <=> (outbounds[i].server = outbounds[j].server)
        /\ Len(outbounds) = Cardinality(RecordsEmitted(out_no))

\* two lines of different protocols with one address have given two
\* outbounds that share their tag
C22_Witness ==
    /\ pc = "done"
    /\ output_file # PyNone
    /\ Len(parsed_list) = 2
    /\ parsed_list[1].address = parsed_list[2].address
    /\ parsed_list[1].proto # parsed_list[2].proto
    /\ Len(outbounds) = 2
    /\ outbounds[1].type # outbounds[2].type
    /\ outbounds[1].server = outbounds[2].server
    /\ outbounds[1].tag = outbounds[2].tag

\* the key f"{proxy['server']}:{proxy['port']}-{proxy['type']}" of a kept
\* proxy
TypeKey(proxy) ==
    Format(proxy.m[<<"s", "e", "r", "v", "e", "r">>]) \o <<":">> \o Format(proxy.m[<<"p", "o", "r", "t">>]) \o <<"-">>
        \o Format(proxy.m[<<"t", "y", "p", "e">>])

\* the keys under which a handler can have kept a proxy: the key made of
\* its type, and for a ws proxy the key made of its host header
ProxyKeys(proxy) ==
    {TypeKey(proxy)} \cup (IF IsExc(ClashKey(proxy)) THEN {} ELSE {ClashKey(proxy).s})

\* C23: after any sequence of calls of the four handlers, those that fail
\* part-way included, servers_list holds no key twice, extracted_proxies and
\* servers_list have the same length, the i-th entry of servers_list is the
\* key of the i-th extracted proxy, and no two extracted proxies have the
\* same name.
C23_ProxiesAndKeysAligned ==
    pc = "process_proxy" =>
        /\ Len(extracted_proxies) = Len(servers_list)
        /\ \A i, j \in 1..Len(servers_list) :
              i # j => servers_list[i] # servers_list[j]
        /\ \A i \in 1..Len(extracted_proxies) :
              servers_list[i] \in ProxyKeys(extracted_proxies[i])
        /\ \A i, j \in 1..Len(extracted_proxies) :
              i # j => NameOf(extracted_proxies[i]) # NameOf(extracted_proxies[j])

\* process_clash_meta has kept one proxy and dropped its duplicate, then
\* process_xray has failed on a reality outbound without settings after
\* taking a name, then process_hysteria has kept a proxy
C23_Witness ==
    /\ pc = "process_proxy"
    /\ Len(inputs) = 3
    /\ inputs[1].method = "process_clash_meta"
    /\ inputs[2].method = "process_xray"
    /\ inputs[3].method = "process_hysteria"
    /\ Index(Index(ListItem(Index(inputs[2].data, <<"o", "u", "t", "b", "o", "u", "n", "d", "s">>), 0), <<"s", "t", "r", "e", "a", "m", "S", "e", "t", "t", "i", "n", "g", "s">>),
             <<"s", "e", "c", "u", "r", "i", "t", "y">>) = PyStr(<<"r", "e", "a", "l", "i", "t", "y">>)
    /\ Len(DictGet(json_loads(inputs[1].data.s), <<"p", "r", "o", "x", "i", "e", "s">>, PyList(<<>>)).items) > 2
    /\ Len(extracted_proxies) = 2
    /\ Len(servers_list) = 2
    /\ country_counters = (<<"U", "S">> :> 3)
    /\ NameOf(extracted_proxies[1]) = <<"U", "S", "-", "0", "1">>
    /\ NameOf(extracted_proxies[2]) = <<"U", "S", "-", "0", "3">>
=============================================================================
